---- MODULE Spec2Model ----
(***************************************************************************)
(* Model of the search engine of Backend/services/search.py                *)
(* (class SearchService) over a store of posts, topics, categories and     *)
(* users that it only reads, of the HTTP layer that calls it               *)
(* (api/routes.py, main.py), and of the scripts that write the store       *)
(* (scripts/load_forum_data.py, scripts/generate_embeddings.py).           *)
(*                                                                         *)
(* Text is modelled character by character: a string is a sequence of      *)
(* one-character strings, so that lower-casing, tokenising, the wrapping   *)
(* of a query into an ILIKE pattern and pattern matching are computed as   *)
(* the code and the database compute them.                                 *)
(*                                                                         *)
(* Scores are kept exact by scaling: a search_score s of the code is the   *)
(* integer 10*s of the model (1.0 -> 10, 0.9 -> 9, 0.8 -> 8, 0.6 -> 6).     *)
(***************************************************************************)
EXTENDS Integers, Sequences, FiniteSets, TLC

VARIABLES
    users,        \* the users table: set of rows
    issued,       \* the store queries the current call has issued, in order
    posts,        \* the posts table: set of rows
    topics,       \* the topics table: set of rows
    pc,           \* position of the current comprehensive_search call
    query,        \* its query argument
    limit,        \* its limit argument
    all_results,  \* its local all_results
    keywords,     \* its local keywords
    kw_done,      \* number of iterations of its keyword loop completed
    result,       \* the value it returned
    faults,       \* number of store queries of the call that raised
    arg,          \* arguments of the function or entry point under check
    ret,          \* what it returned
    text_results,     \* hybrid_search: its local text_results
    semantic_results, \* hybrid_search: its local semantic_results
    categories,       \* the categories table: set of rows
    search_service,   \* the module global search_service of services/search.py
    sessions,         \* number of sessions of SessionLocal opened and not closed
    txn,              \* a script's session: the tables as its open transaction sees them
    before            \* the tables as they were when the running script started

\* the state around the engine: the categories table, the process globals
\* and the sessions
app == <<categories, search_service, sessions, txn, before>>

vars == <<users, issued, posts, topics, pc, query, limit, all_results, keywords, kw_done,
          result, faults, arg, ret, text_results, semantic_results, app>>

----------------------------------------------------------------------------
(* Bounds of the model *)

MaxPosts == 2
MaxTopics == 2
MaxTime == 2
MaxTopicTime == 1
MaxLimit == 4
MaxCandidates == 3

----------------------------------------------------------------------------
(* Text *)

LowerAlpha == <<"a","b","c","d","e","f","g","h","i","j","k","l","m",
                "n","o","p","q","r","s","t","u","v","w","x","y","z">>
UpperAlpha == <<"A","B","C","D","E","F","G","H","I","J","K","L","M",
                "N","O","P","Q","R","S","T","U","V","W","X","Y","Z">>
Digits == {"0","1","2","3","4","5","6","7","8","9"}

Range(s) == { s[i] : i \in DOMAIN s }

\* the lower-case letter of each upper-case letter
LowerOf ==
    [c \in Range(UpperAlpha) |->
        LowerAlpha[CHOOSE i \in DOMAIN UpperAlpha : UpperAlpha[i] = c]]

\* str.lower() / the case folding of ILIKE, one character
lower_char(c) == IF c \in DOMAIN LowerOf THEN LowerOf[c] ELSE c

\* str.lower()
lower(s) == [i \in DOMAIN s |-> lower_char(s[i])]

\* the characters of the regular expression class \w
WordChars == Range(LowerAlpha) \cup Range(UpperAlpha) \cup Digits \cup {"_"}

IsWordChar(c) == c \in WordChars

\* Python's `p in s` for strings
Contains(s, p) ==
    \E i \in 0..(Len(s) - Len(p)) : SubSeq(s, i + 1, i + Len(p)) = p

\* re.findall(r'\b\w+\b', s): the maximal runs of word characters, in order.
\* cur is the run being read.
RECURSIVE FindWords(_, _)
FindWords(s, cur) ==
    IF s = <<>> THEN (IF cur = <<>> THEN <<>> ELSE <<cur>>)
    ELSE IF IsWordChar(Head(s)) THEN FindWords(Tail(s), Append(cur, Head(s)))
    ELSE (IF cur = <<>> THEN <<>> ELSE <<cur>>) \o FindWords(Tail(s), <<>>)

\* SQL LIKE on case-folded text: % matches any run, _ any one character
RECURSIVE Like(_, _)
Like(s, p) ==
    IF p = <<>> THEN s = <<>>
    ELSE IF Head(p) = "%"
         THEN \E k \in 0..Len(s) : Like(SubSeq(s, k + 1, Len(s)), Tail(p))
    ELSE IF s = <<>> THEN FALSE
    ELSE (Head(p) = "_" \/ Head(p) = Head(s)) /\ Like(Tail(s), Tail(p))

\* SQL ILIKE
ILike(s, p) == Like(lower(s), lower(p))

\* the value None, and its rendering by an f-string
None == <<"<None>">>
Str(q) == IF q = None THEN <<"N", "o", "n", "e">> ELSE q

\* f"%{query}%"
LikePattern(q) == <<"%">> \o Str(q) \o <<"%">>

\* f'"{query}"'
Quoted(q) == <<"\"">> \o Str(q) \o <<"\"">>

----------------------------------------------------------------------------
(* Sequences *)

Take(s, n) == IF n <= 0 THEN <<>> ELSE SubSeq(s, 1, IF n < Len(s) THEN n ELSE Len(s))

\* the sequences that list every element of the set S once
RECURSIVE Orderings(_)
Orderings(S) ==
    IF S = {} THEN { <<>> }
    ELSE UNION { { <<x>> \o rest : rest \in Orderings(S \ {x}) } : x \in S }

----------------------------------------------------------------------------
(* Keyword extraction *)

stop_words == { <<"t", "h", "e">>,
    <<"a">>,
    <<"a", "n">>,
    <<"a", "n", "d">>,
    <<"o", "r">>,
    <<"b", "u", "t">>,
    <<"i", "n">>,
    <<"o", "n">>,
    <<"a", "t">>,
    <<"t", "o">>,
    <<"f", "o", "r">>,
    <<"o", "f">>,
    <<"w", "i", "t", "h">>,
    <<"b", "y">>,
    <<"h", "o", "w">>,
    <<"w", "h", "a", "t">>,
    <<"w", "h", "e", "n">>,
    <<"w", "h", "e", "r", "e">>,
    <<"w", "h", "y">>,
    <<"i", "s">>,
    <<"a", "r", "e">>,
    <<"w", "a", "s">>,
    <<"w", "e", "r", "e">>,
    <<"b", "e">>,
    <<"b", "e", "e", "n">>,
    <<"h", "a", "v", "e">>,
    <<"h", "a", "s">>,
    <<"h", "a", "d">>,
    <<"d", "o">>,
    <<"d", "o", "e", "s">>,
    <<"d", "i", "d">>,
    <<"w", "i", "l", "l">>,
    <<"w", "o", "u", "l", "d">>,
    <<"c", "o", "u", "l", "d">>,
    <<"s", "h", "o", "u", "l", "d">>,
    <<"c", "a", "n">> }

technical_list == << <<"g", "p", "t">>,
    <<"a", "p", "i">>,
    <<"m", "o", "d", "e", "l">>,
    <<"d", "o", "c", "k", "e", "r">>,
    <<"p", "o", "d", "m", "a", "n">>,
    <<"g", "a">>,
    <<"t", "d", "s">>,
    <<"e", "x", "a", "m">>,
    <<"a", "s", "s", "i", "g", "n", "m", "e", "n", "t">> >>

IsTechnical(word) == \E i \in DOMAIN technical_list : Contains(word, technical_list[i])

\* the extractor without its "prioritize technical terms" step
_extract_search_keywords_Unsorted(q) ==
    LET words == FindWords(lower(q), <<>>)
    IN  SelectSeq(words, LAMBDA w : Len(w) > 2 /\ w \notin stop_words)

_extract_search_keywords(q) ==
    LET words == FindWords(lower(q), <<>>)
        kws == SelectSeq(words, LAMBDA w : Len(w) > 2 /\ w \notin stop_words)
        technical_terms == SelectSeq(kws, IsTechnical)
    IN  technical_terms \o SelectSeq(kws, LAMBDA k : k \notin Range(technical_terms))

----------------------------------------------------------------------------
(* The store: rows of the posts and topics tables (database/models.py).    *)
(* Only the columns the queries of SearchService read are kept.            *)

\* raw (markdown) and cooked (rendered HTML) text of the posts considered
Bodies ==
    { [raw |-> <<"P", "o", "d", "m", "a", "n">>,
       cooked |-> <<"<", "p", ">", "P", "o", "d", "m", "a", "n", "<", "/", "p", ">">>],
      [raw |-> <<"\"", "p", "o", "d", "m", "a", "n", "\"">>,
       cooked |-> <<"<", "p", ">", "&", "q", "u", "o", "t", ";", "p", "o", "d", "m", "a", "n", "&", "q", "u", "o", "t", ";", "<", "/", "p", ">">>],
      [raw |-> <<"g", "p", "t", " ", "a", "p", "i">>,
       cooked |-> <<"<", "p", ">", "g", "p", "t", " ", "a", "p", "i", "<", "/", "p", ">">>] }

\* topic titles considered
Titles == { <<"P", "o", "d", "m", "a", "n", " ", "G", "A">>, <<"n", "o", "n", "e">> }

\* queries considered; None is what a caller passes that has no question
Queries ==
    { <<"p", "o", "d", "m", "a", "n">>,
      <<"g", "p", "t", " ", "g", "p", "t">>,
      <<"g", "p", "t", " ", "a", "p", "i", " ", "t", "d", "s", " ", "e", "x", "a", "m">>,
      None }

Limits == 0..MaxLimit
Times == 1..MaxTime
TopicTimes == 1..MaxTopicTime

\* the categories table of the search specifications: their topics are all
\* of category 1 (topics.category_id is a non-null foreign key)
Categories == { [id |-> 1] }

\* no SearchService in the module global, no session open, no script running
AppIdle ==
    /\ search_service = None
    /\ sessions = 0
    /\ txn = None
    /\ before = None

\* the topics tables: topics 1..n, any title, any creation time
TopicTables ==
    UNION { { { [id |-> i, title |-> f[i].title, created_at |-> f[i].created_at]
                : i \in 1..n }
              : f \in [1..n -> [title : Titles, created_at : TopicTimes]] }
            : n \in 1..MaxTopics }

\* the posts tables over a topics table: posts 1..m, each in an existing topic
PostTables(tt) ==
    UNION { { { [id |-> i, raw |-> f[i].body.raw, cooked |-> f[i].body.cooked,
                 topic_id |-> f[i].topic_id, created_at |-> f[i].created_at]
                : i \in 1..m }
              : f \in [1..m -> [body : Bodies, topic_id : { t.id : t \in tt },
                                created_at : Times]] }
            : m \in 0..MaxPosts }

TopicOf(p) == CHOOSE t \in topics : t.id = p.topic_id

\* what a query does when the store raises or answers
Outcomes == { "ok", "error" }

\* session.execute(statement, params) as the store sees it: the method that
\* issued it, its pattern (or embedding, or window) parameter, its LIMIT
\* parameter, and whether it raised; a negative LIMIT is an error of the
\* database
Issued(op, param, n, outcome) ==
    [op |-> op, param |-> param, limit |-> n,
     outcome |-> IF outcome = "error" \/ n < 0 THEN "error" ELSE "ok"]

\* k1 comes before k2 in a descending lexicographic order of integer tuples
LexGreater(k1, k2) ==
    \E i \in DOMAIN k1 :
        /\ k1[i] > k2[i]
        /\ \A j \in 1..(i - 1) : k1[j] = k2[j]

\* ORDER BY key DESC LIMIT n over the rows S, key a function from rows to
\* integer tuples: the prefixes of length <= n of the orderings of S that
\* respect the keys. Rows of equal key come in any order.
OrderByLimit(S, key, n) ==
    IF n <= 0 THEN { <<>> }
    ELSE { Take(o, n) : o \in { o \in Orderings(S) :
             \A i, j \in DOMAIN o : i < j => ~LexGreater(key[o[j]], key[o[i]]) } }

\* the rows the query of simple_search selects
SimpleMatches(q) ==
    LET pat == LikePattern(q)
    IN  { p \in posts : \/ ILike(p.cooked, pat)
                        \/ ILike(p.raw, pat)
                        \/ ILike(TopicOf(p).title, pat) }

\* the rows the query of _search_topics selects
TopicMatches(q) ==
    { p \in posts : ILike(TopicOf(p).title, LikePattern(q)) }

SimpleRow(p) ==
    [post_id |-> p.id, topic_id |-> p.topic_id, created_at |-> p.created_at,
     search_type |-> "simple"]

TopicRow(p) ==
    [post_id |-> p.id, topic_id |-> p.topic_id, created_at |-> p.created_at]

\* the lists simple_search(q, n) can return; a query that raises gives [].
\* A negative LIMIT is an error of the database.
simple_search(q, n, outcome) ==
    IF outcome = "error" \/ n < 0 THEN { <<>> }
    ELSE LET matches == SimpleMatches(q)
         IN  { [i \in DOMAIN rows |-> SimpleRow(rows[i])] :
                 rows \in OrderByLimit(matches,
                             [p \in matches |-> <<p.created_at>>], n) }

\* the lists _search_topics(q, n) can return
_search_topics(q, n, outcome) ==
    IF outcome = "error" \/ n < 0 THEN { <<>> }
    ELSE LET matches == TopicMatches(q)
         IN  { [i \in DOMAIN rows |-> TopicRow(rows[i])] :
                 rows \in OrderByLimit(matches,
                             [p \in matches |->
                                 <<TopicOf(p).created_at, 0 - p.id>>], n) }

----------------------------------------------------------------------------
(* Result dictionaries *)

ExactScore == 10
TitleScore == 9
KeywordsScore == 8
SingleKeywordScore == 6

\* result['search_score'] = score; result['search_method'] = method
Tag(r, score, method) ==
    [k \in DOMAIN r \cup {"search_score", "search_method"} |->
        IF k = "search_score" THEN score
        ELSE IF k = "search_method" THEN method
        ELSE r[k]]

\* result.get('search_score', 0)
Score(r) == IF "search_score" \in DOMAIN r THEN r.search_score ELSE 0

\* result.get('post_id') or result.get('id'); 0 stands for a falsy value
PostIdOf(r) ==
    IF "post_id" \in DOMAIN r /\ r.post_id # 0 THEN r.post_id
    ELSE IF "id" \in DOMAIN r THEN r.id
    ELSE 0

\* DedupStep with the score test dropped: the first candidate of an id stays
DedupStep_FirstWins(seen, r) ==
    LET post_id == PostIdOf(r)
    IN  IF post_id = 0 \/ \E i \in DOMAIN seen : PostIdOf(seen[i]) = post_id
        THEN seen
        ELSE Append(seen, r)

\* DedupStep that raises the stored score instead of storing the candidate
DedupStep_ScoreOnly(seen, r) ==
    LET post_id == PostIdOf(r)
        at == { i \in DOMAIN seen : PostIdOf(seen[i]) = post_id }
    IN  IF post_id = 0 THEN seen
        ELSE IF at = {} THEN Append(seen, r)
        ELSE IF Score(r) > Score(seen[CHOOSE i \in at : TRUE])
             THEN [seen EXCEPT ![CHOOSE i \in at : TRUE].search_score = Score(r)]
        ELSE seen

\* DedupStep with >= for >: a later candidate of equal score replaces the
\* stored one
DedupStep_LastWins(seen, r) ==
    LET post_id == PostIdOf(r)
        at == { i \in DOMAIN seen : PostIdOf(seen[i]) = post_id }
    IN  IF post_id = 0 THEN seen
        ELSE IF at = {} THEN Append(seen, r)
        ELSE IF Score(r) >= Score(seen[CHOOSE i \in at : TRUE])
             THEN [seen EXCEPT ![CHOOSE i \in at : TRUE] = r]
        ELSE seen

\* one iteration of the loop of _deduplicate_results; seen is the dict
\* seen_posts as the list of its values in insertion order
DedupStep(seen, r) ==
    LET post_id == PostIdOf(r)
        at == { i \in DOMAIN seen : PostIdOf(seen[i]) = post_id }
    IN  IF post_id = 0 THEN seen
        ELSE IF at = {} THEN Append(seen, r)
        ELSE IF Score(r) > Score(seen[CHOOSE i \in at : TRUE])
             THEN [seen EXCEPT ![CHOOSE i \in at : TRUE] = r]
        ELSE seen

RECURSIVE DedupLoop(_, _)
DedupLoop(seen, results) ==
    IF results = <<>> THEN seen
    ELSE DedupLoop(DedupStep(seen, Head(results)), Tail(results))

_deduplicate_results(results) == DedupLoop(<<>>, results)

\* the sort without reverse=True: ascending
RECURSIVE SortedByScoreAsc(_)
SortedByScoreAsc(s) ==
    IF s = <<>> THEN <<>>
    ELSE LET rest == SortedByScoreAsc(SubSeq(s, 1, Len(s) - 1))
             x == s[Len(s)]
             k == Cardinality({ i \in DOMAIN rest : Score(rest[i]) <= Score(x) })
         IN  SubSeq(rest, 1, k) \o <<x>> \o SubSeq(rest, k + 1, Len(rest))

\* sorted(s, key=Score, reverse=True): stable, descending
RECURSIVE SortedByScoreDesc(_)
SortedByScoreDesc(s) ==
    IF s = <<>> THEN <<>>
    ELSE LET rest == SortedByScoreDesc(SubSeq(s, 1, Len(s) - 1))
             x == s[Len(s)]
             k == Cardinality({ i \in DOMAIN rest : Score(rest[i]) >= Score(x) })
         IN  SubSeq(rest, 1, k) \o <<x>> \o SubSeq(rest, k + 1, Len(rest))

\* the list returned whole, the slice forgotten
Slice_Whole(s, n) == s

\* s[:n]
Slice(s, n) == IF n >= 0 THEN Take(s, n) ELSE Take(s, Len(s) + n)

----------------------------------------------------------------------------
(* comprehensive_search, one action per statement group of its try block   *)

\* for result in rows: tag it
TaggedAll(rows, score, method) == [i \in DOMAIN rows |-> Tag(rows[i], score, method)]

\* a caller (main.handle_student_request, routes.ask_virtual_ta,
\* rag_manager.test_search) calls comprehensive_search(q, l)
Call(q, l) ==
    /\ pc = "idle"
    /\ pc' = "exact"
    /\ query' = q
    /\ limit' = l
    /\ all_results' = <<>>
    /\ keywords' = <<>>
    /\ kw_done' = 0
    /\ result' = <<>>
    /\ faults' = 0
    /\ UNCHANGED <<app, users, issued, posts, topics, arg, ret,
                   text_results, semantic_results>>

\* the exact phrase search given the whole limit as its quota
ExactPhrase_WholeLimit ==
    /\ pc = "exact"
    /\ \E outcome \in Outcomes :
         /\ faults' = faults + (IF outcome = "error" THEN 1 ELSE 0)
         /\ issued' = Append(issued, Issued("simple_search", LikePattern(Quoted(query)),
                                            limit, outcome))
         /\ \E exact_results \in simple_search(Quoted(query), limit, outcome) :
              all_results' = all_results \o
                  TaggedAll(exact_results, ExactScore, <<"exact_phrase">>)
    /\ pc' = "keywords"
    /\ UNCHANGED <<app, users, posts, topics, query, limit, keywords, kw_done, result, arg, ret,
                   text_results, semantic_results>>

\* 1. exact phrase search
ExactPhrase ==
    /\ pc = "exact"
    /\ \E outcome \in Outcomes :
         /\ faults' = faults + (IF outcome = "error" THEN 1 ELSE 0)
         /\ issued' = Append(issued, Issued("simple_search", LikePattern(Quoted(query)),
                                            limit \div 4, outcome))
         /\ \E exact_results \in simple_search(Quoted(query), limit \div 4, outcome) :
              all_results' = all_results \o
                  TaggedAll(exact_results, ExactScore, <<"exact_phrase">>)
    /\ pc' = "keywords"
    /\ UNCHANGED <<app, users, posts, topics, query, limit, keywords, kw_done, result, arg, ret,
                   text_results, semantic_results>>

\* 2. full-text search with all keywords
FullKeyword ==
    /\ pc = "keywords"
    /\ \E outcome \in Outcomes :
         /\ faults' = faults + (IF outcome = "error" THEN 1 ELSE 0)
         /\ issued' = Append(issued, Issued("simple_search", LikePattern(query),
                                            limit \div 2, outcome))
         /\ \E keyword_results \in simple_search(query, limit \div 2, outcome) :
              all_results' = all_results \o
                  TaggedAll(keyword_results, KeywordsScore, <<"keywords">>)
    /\ pc' = "extract"
    /\ UNCHANGED <<app, users, posts, topics, query, limit, keywords, kw_done, result, arg, ret,
                   text_results, semantic_results>>

\* 3. keywords = self._extract_search_keywords(query); query.lower() raises
\* AttributeError when query is None
ExtractKeywords ==
    /\ pc = "extract"
    /\ IF query = None
       THEN /\ pc' = "except"
            /\ UNCHANGED keywords
       ELSE /\ pc' = "kw"
            /\ keywords' = _extract_search_keywords(query)
    /\ UNCHANGED <<app, users, issued, posts, topics, query, limit, all_results, kw_done, result,
                   faults, arg, ret,
                   text_results, semantic_results>>

MaxKeywordQueries == 3

\* one iteration of: for keyword in keywords[:3]
SingleKeyword ==
    /\ pc = "kw"
    /\ kw_done < Len(Slice(keywords, MaxKeywordQueries))
    /\ LET keyword == keywords[kw_done + 1] IN
       \E outcome \in Outcomes :
         /\ faults' = faults + (IF outcome = "error" THEN 1 ELSE 0)
         /\ issued' = Append(issued, Issued("simple_search", LikePattern(keyword),
                                            limit \div 4, outcome))
         /\ \E kw_results \in simple_search(keyword, limit \div 4, outcome) :
              all_results' = all_results \o
                  TaggedAll(kw_results, SingleKeywordScore, <<"keyword_", keyword>>)
    /\ kw_done' = kw_done + 1
    /\ UNCHANGED <<app, users, posts, topics, pc, query, limit, keywords, result, arg, ret,
                   text_results, semantic_results>>

\* the keyword loop ends
KeywordsDone ==
    /\ pc = "kw"
    /\ kw_done = Len(Slice(keywords, MaxKeywordQueries))
    /\ pc' = "topic"
    /\ UNCHANGED <<app, users, issued, posts, topics, query, limit, all_results, keywords, kw_done,
                   result, faults, arg, ret,
                   text_results, semantic_results>>

\* the topic title search skipped once a sub-query has faulted
TopicTitle_AbortsOnFault ==
    /\ pc = "topic"
    /\ IF faults > 0
       THEN UNCHANGED <<issued, all_results, faults>>
       ELSE \E outcome \in Outcomes :
              /\ faults' = faults + (IF outcome = "error" THEN 1 ELSE 0)
              /\ issued' = Append(issued, Issued("_search_topics", LikePattern(query),
                                                 limit \div 4, outcome))
              /\ \E topic_results \in _search_topics(query, limit \div 4, outcome) :
                   all_results' = all_results \o
                       TaggedAll(topic_results, TitleScore, <<"topic_title">>)
    /\ pc' = "merge"
    /\ UNCHANGED <<app, users, posts, topics, query, limit, keywords, kw_done, result, arg, ret,
                   text_results, semantic_results>>

\* 4. topic title search
TopicTitle ==
    /\ pc = "topic"
    /\ \E outcome \in Outcomes :
         /\ faults' = faults + (IF outcome = "error" THEN 1 ELSE 0)
         /\ issued' = Append(issued, Issued("_search_topics", LikePattern(query),
                                            limit \div 4, outcome))
         /\ \E topic_results \in _search_topics(query, limit \div 4, outcome) :
              all_results' = all_results \o
                  TaggedAll(topic_results, TitleScore, <<"topic_title">>)
    /\ pc' = "merge"
    /\ UNCHANGED <<app, users, posts, topics, query, limit, keywords, kw_done, result, arg, ret,
                   text_results, semantic_results>>

\* the value of the return statement of the try block
Ranked(results, l) == Slice(SortedByScoreDesc(_deduplicate_results(results)), l)

\* the merge started while sub-queries of the call are still to run
Merge_NoBarrier ==
    /\ pc \in {"kw", "topic", "merge"}
    /\ result' = Ranked(all_results, limit)
    /\ pc' = "done"
    /\ UNCHANGED <<app, users, issued, posts, topics, query, limit, all_results, keywords, kw_done,
                   faults, arg, ret,
                   text_results, semantic_results>>

\* remove duplicates, sort by relevance, return
Merge ==
    /\ pc = "merge"
    /\ result' = Ranked(all_results, limit)
    /\ pc' = "done"
    /\ UNCHANGED <<app, users, issued, posts, topics, query, limit, all_results, keywords, kw_done,
                   faults, arg, ret,
                   text_results, semantic_results>>

\* a handler that returns the candidates gathered before the exception
Fallback_ReturnsPartial ==
    /\ pc = "except"
    /\ result' = Ranked(all_results, limit)
    /\ pc' = "fellback"
    /\ UNCHANGED <<app, users, issued, posts, topics, query, limit, all_results, keywords, kw_done,
                   faults, arg, ret,
                   text_results, semantic_results>>

\* except Exception: return self.simple_search(query, limit)
Fallback ==
    /\ pc = "except"
    /\ \E outcome \in Outcomes :
         /\ faults' = faults + (IF outcome = "error" THEN 1 ELSE 0)
         /\ issued' = Append(issued, Issued("simple_search", LikePattern(query),
                                            limit, outcome))
         /\ result' \in simple_search(query, limit, outcome)
    /\ pc' = "fellback"
    /\ UNCHANGED <<app, users, posts, topics, query, limit, all_results, keywords, kw_done,
                   arg, ret,
                   text_results, semantic_results>>

\* the caller has consumed the returned list
Return ==
    /\ pc \in {"done", "fellback"}
    /\ pc' = "idle"
    /\ issued' = <<>>
    /\ query' = None
    /\ limit' = 0
    /\ all_results' = <<>>
    /\ keywords' = <<>>
    /\ kw_done' = 0
    /\ result' = <<>>
    /\ faults' = 0
    /\ UNCHANGED <<app, users, posts, topics, arg, ret,
                   text_results, semantic_results>>

Init ==
    /\ topics \in TopicTables
    /\ posts \in PostTables(topics)
    /\ pc = "idle"
    /\ users = {}
    /\ categories = Categories
    /\ AppIdle
    /\ issued = <<>>
    /\ query = None
    /\ limit = 0
    /\ all_results = <<>>
    /\ keywords = <<>>
    /\ kw_done = 0
    /\ result = <<>>
    /\ faults = 0
    /\ arg = <<>>
    /\ ret = <<>>
    /\ text_results = <<>>
    /\ semantic_results = <<>>

Next ==
    \/ \E q \in Queries, l \in Limits : Call(q, l)
    \/ ExactPhrase
    \/ FullKeyword
    \/ ExtractKeywords
    \/ SingleKeyword
    \/ KeywordsDone
    \/ TopicTitle
    \/ Merge
    \/ Fallback
    \/ Return

Spec == Init /\ [][Next]_vars

----------------------------------------------------------------------------
(* Properties of comprehensive_search *)

\* the query occurs in the text, letter case aside
ContainsCI(txt, q) == Contains(lower(txt), lower(q))

\* the posts whose text or topic title contains the query
PostsContaining(q) ==
    { p \in posts : \/ ContainsCI(p.raw, q)
                    \/ ContainsCI(p.cooked, q)
                    \/ ContainsCI(TopicOf(p).title, q) }

\* C2: the list comprehensive_search returns on its normal path is sorted by
\* search_score, non-increasing: no entry is followed by a higher-scored one.
C2_RankingOrder ==
    pc = "done" =>
        \A i \in 1..(Len(result) - 1) : Score(result[i]) >= Score(result[i + 1])

\* a call returned two results of different scores that the candidate list
\* held in the opposite order
C2_Witness ==
    /\ pc = "done"
    /\ Len(result) >= 2
    /\ Score(result[1]) > Score(result[2])
    /\ \E i, j \in DOMAIN all_results :
          /\ i < j
          /\ PostIdOf(all_results[i]) = PostIdOf(result[2])
          /\ PostIdOf(all_results[j]) = PostIdOf(result[1])
          /\ \A k \in 1..(j - 1) : PostIdOf(all_results[k]) # PostIdOf(result[1])

\* C3: comprehensive_search never passes an exception on to its caller; when
\* a step of the pipeline raises, it returns what simple_search(query, limit)
\* returns.
C3_GracefulDegradation ==
    /\ pc # "raised"
    /\ pc = "fellback" =>
          result \in simple_search(query, limit, "ok")
                        \cup simple_search(query, limit, "error")

\* the pipeline raised after gathering candidates, and the fallback returned
\* the rows of the plain search
C3_Witness ==
    /\ pc = "fellback"
    /\ all_results # <<>>
    /\ result # <<>>
    /\ \A i \in DOMAIN result : "search_score" \notin DOMAIN result[i]

\* C4: for every limit >= 1, when the store holds a post whose text or topic
\* title contains the query, comprehensive_search returns a non-empty list
\* (no store query of the call having failed).
C4_NonEmptyWhenMatchesExist ==
    ( /\ pc \in {"done", "fellback"}
      /\ query # None
      /\ limit >= 1
      /\ faults = 0
      /\ PostsContaining(query) # {} )
    => result # <<>>

\* C8: every result of the normal path carries the score of the strategy its
\* search_method names: exact_phrase 1.0, topic_title 0.9, keywords 0.8,
\* keyword_<term> 0.6.
StrategyScore(method) ==
    IF method = <<"exact_phrase">> THEN ExactScore
    ELSE IF method = <<"topic_title">> THEN TitleScore
    ELSE IF method = <<"keywords">> THEN KeywordsScore
    ELSE IF Len(method) = 2 /\ method[1] = "keyword_" THEN SingleKeywordScore
    ELSE 0

C8_StrategyScores ==
    pc = "done" =>
        \A i \in DOMAIN result :
            /\ "search_method" \in DOMAIN result[i]
            /\ "search_score" \in DOMAIN result[i]
            /\ StrategyScore(result[i].search_method) # 0
            /\ result[i].search_score = StrategyScore(result[i].search_method)

\* a call returned results of two strategies, one of them found by a weaker
\* strategy first and replaced by the merge
C8_Witness ==
    /\ pc = "done"
    /\ \E i, j \in DOMAIN result :
          result[i].search_method # result[j].search_method
    /\ \E i \in DOMAIN result : \E k \in DOMAIN all_results :
          /\ PostIdOf(all_results[k]) = PostIdOf(result[i])
          /\ Score(all_results[k]) < Score(result[i])

\* C9: a post whose raw or rendered text contains the query as a contiguous
\* phrase is matched by the exact-phrase strategy, whether or not the text
\* holds the delimiters: when such a post exists and the quota is at least
\* one, the exact-phrase step yields a candidate.
C9_ExactPhraseMatchesPhrase ==
    ( /\ pc = "keywords"
      /\ query # None
      /\ faults = 0
      /\ limit \div 4 >= 1
      /\ \E p \in posts : ContainsCI(p.raw, query) \/ ContainsCI(p.cooked, query) )
    => \E i \in DOMAIN all_results :
          all_results[i].search_method = <<"exact_phrase">>

\* the sub-queries of the try block for the current query, limit and
\* keywords, in the order they are issued: the tag of each, and the number
\* of rows the store answers it with
SubQueries ==
    LET kws == Slice(keywords, MaxKeywordQueries)
        Rows(matches, n) ==
            IF n <= 0 THEN 0
            ELSE IF Cardinality(matches) < n THEN Cardinality(matches) ELSE n
    IN  << [method |-> <<"exact_phrase">>,
            rows |-> Rows(SimpleMatches(Quoted(query)), limit \div 4)],
           [method |-> <<"keywords">>,
            rows |-> Rows(SimpleMatches(query), limit \div 2)] >>
        \o [i \in DOMAIN kws |->
               [method |-> <<"keyword_", kws[i]>>,
                rows |-> Rows(SimpleMatches(kws[i]), limit \div 4)]]
        \o << [method |-> <<"topic_title">>,
               rows |-> Rows(TopicMatches(query), limit \div 4)] >>

\* the number of rows the sub-queries i.. of sq tagged `method` that did not
\* fault were answered with
RECURSIVE Answered(_, _, _)
Answered(sq, method, i) ==
    IF i > Len(sq) THEN 0
    ELSE (IF sq[i].method = method /\ issued[i].outcome = "ok"
          THEN sq[i].rows ELSE 0) + Answered(sq, method, i + 1)

\* C17: when exactly one sub-query of comprehensive_search faults, every
\* sub-query has still been run, the faulted one contributes no candidate,
\* every other one contributes the rows the store answered it with, and the
\* call returns the merge of these candidates.
C17_FaultIsolation ==
    /\ pc = "done"
    /\ Cardinality({ i \in DOMAIN issued : issued[i].outcome = "error" }) = 1
    => LET sq == SubQueries
       IN  /\ Len(issued) = Len(sq)
           /\ \A k \in DOMAIN sq :
                 Cardinality({ j \in DOMAIN all_results :
                                 all_results[j].search_method = sq[k].method })
                     = Answered(sq, sq[k].method, 1)
           /\ \A j \in DOMAIN all_results :
                 \E k \in DOMAIN sq : all_results[j].search_method = sq[k].method
           /\ result = Ranked(all_results, limit)

\* the full-keyword sub-query faulted though posts matched it, and the call
\* returned the posts the other sub-queries found
C17_Witness ==
    /\ pc = "done"
    /\ Cardinality({ i \in DOMAIN issued : issued[i].outcome = "error" }) = 1
    /\ issued[2].outcome = "error"
    /\ SubQueries[2].rows > 0
    /\ result # <<>>

\* C16: when every store query of a comprehensive_search call faults, the
\* call does not return a list to its caller as if no post matched.
C16_OutageSurfaced ==
    ~ /\ pc \in {"done", "fellback"}
      /\ issued # <<>>
      /\ \A i \in DOMAIN issued : issued[i].outcome = "error"

\* C21: the deduplicate-and-sort step of a comprehensive_search call starts
\* only after every sub-query of the call (exact phrase, full keyword, each
\* single keyword, topic title) has completed and its rows have been tagged
\* and appended to all_results: when control is at the merge the log holds
\* one completed query per sub-query, all_results holds for each tag the rows
\* the store answered its sub-queries with, and every candidate is tagged;
\* when the call has returned, every sub-query had completed and the value
\* returned is the merge of that list.
C21_MergeBarrier ==
    /\ pc = "merge" =>
          LET sq == SubQueries
          IN  /\ Len(issued) = Len(sq)
              /\ kw_done = Len(sq) - 3
              /\ \A k \in DOMAIN sq :
                    Cardinality({ j \in DOMAIN all_results :
                                    all_results[j].search_method = sq[k].method })
                        = Answered(sq, sq[k].method, 1)
              /\ \A j \in DOMAIN all_results :
                    /\ "search_score" \in DOMAIN all_results[j]
                    /\ \E k \in DOMAIN sq : all_results[j].search_method = sq[k].method
    /\ pc = "done" =>
          /\ Len(issued) = 3 + Len(Slice(keywords, MaxKeywordQueries))
          /\ kw_done = Len(issued) - 3
          /\ result = Ranked(all_results, limit)

\* control is at the merge of a call whose four kinds of sub-query were all
\* answered with rows
C21_Witness ==
    /\ pc = "merge"
    /\ Len(issued) >= 4
    /\ \A i \in DOMAIN issued : issued[i].outcome = "ok"
    /\ LET sq == SubQueries IN \A k \in DOMAIN sq : sq[k].rows > 0
    /\ \A st \in { <<"exact_phrase">>, <<"keywords">>, <<"topic_title">> } :
          \E j \in DOMAIN all_results : all_results[j].search_method = st

\* C25: a comprehensive_search(query, limit) call on a string query issues
\* exactly one exact-phrase query with row quota floor(limit/4), one
\* full-keyword query with quota floor(limit/2), one single-keyword query
\* with quota floor(limit/4) for each of the first min(3, number of extracted
\* keywords) keywords, and one topic-title query with quota floor(limit/4),
\* in this order; no call issues more than 6 store queries.
C25_FanOutAndQuotas ==
    /\ Len(issued) <= 6
    /\ pc \in {"done", "fellback"} /\ query # None =>
          LET n == Len(_extract_search_keywords(query))
              k == IF n < 3 THEN n ELSE 3
              Floor(q, d) == d * q <= limit /\ limit < d * (q + 1)
          IN  /\ Len(issued) = 3 + k
              /\ issued[1].op = "simple_search"
              /\ issued[1].param = LikePattern(Quoted(query))
              /\ Floor(issued[1].limit, 4)
              /\ issued[2].op = "simple_search"
              /\ issued[2].param = LikePattern(query)
              /\ Floor(issued[2].limit, 2)
              /\ \A i \in 1..k :
                    /\ issued[2 + i].op = "simple_search"
                    /\ issued[2 + i].param =
                           LikePattern(_extract_search_keywords(query)[i])
                    /\ Floor(issued[2 + i].limit, 4)
              /\ issued[3 + k].op = "_search_topics"
              /\ issued[3 + k].param = LikePattern(query)
              /\ Floor(issued[3 + k].limit, 4)

\* a call on a query of more than three keywords, with distinct quotas for
\* its sub-queries, has returned after six store queries
C25_Witness ==
    /\ pc = "done"
    /\ Len(keywords) > 3
    /\ Len(issued) = 6
    /\ issued[1].limit = 1
    /\ issued[2].limit = 2

----------------------------------------------------------------------------
(* _deduplicate_results as a function of its argument *)

\* the tags comprehensive_search gives its candidates
Strategies ==
    { [score |-> ExactScore, method |-> <<"exact_phrase">>],
      [score |-> TitleScore, method |-> <<"topic_title">>],
      [score |-> KeywordsScore, method |-> <<"keywords">>],
      [score |-> SingleKeywordScore, method |-> <<"keyword_", <<"g", "p", "t">>>>] }

\* candidate dictionaries: rows of posts 1..MaxPosts, tagged or not
Candidates ==
    { [post_id |-> i] : i \in 1..MaxPosts }
    \cup { Tag([post_id |-> i], st.score, st.method) :
             i \in 1..MaxPosts, st \in Strategies }

CandidateLists == UNION { [1..n -> Candidates] : n \in 0..MaxCandidates }

InitDedup ==
    /\ arg \in CandidateLists
    /\ ret = <<>>
    /\ pc = "dedup"
    /\ users = {}
    /\ categories = {}
    /\ AppIdle
    /\ issued = <<>>
    /\ posts = {}
    /\ topics = {}
    /\ query = None
    /\ limit = 0
    /\ all_results = <<>>
    /\ keywords = <<>>
    /\ kw_done = 0
    /\ result = <<>>
    /\ faults = 0
    /\ text_results = <<>>
    /\ semantic_results = <<>>

Deduplicate ==
    /\ pc = "dedup"
    /\ ret' = _deduplicate_results(arg)
    /\ pc' = "deduped"
    /\ UNCHANGED <<app, users, issued, posts, topics, query, limit, all_results, keywords, kw_done,
                   result, faults, arg,
                   text_results, semantic_results>>

NextDedup == Deduplicate

SpecDedup == InitDedup /\ [][NextDedup]_vars

MaxOf(S) == CHOOSE m \in S : \A x \in S : x <= m

\* C1: for every list of candidates and every post id in it, the output of
\* _deduplicate_results holds exactly one entry of that id, and its score is
\* the greatest score of the candidates of that id.
C1_MergeCorrectness ==
    pc = "deduped" =>
        \A id \in { PostIdOf(arg[j]) : j \in DOMAIN arg } :
            LET hits == { i \in DOMAIN ret : PostIdOf(ret[i]) = id }
            IN  /\ Cardinality(hits) = 1
                /\ \A i \in hits :
                      Score(ret[i]) =
                          MaxOf({ Score(arg[j]) :
                                    j \in { j \in DOMAIN arg : PostIdOf(arg[j]) = id } })

\* a later candidate of a post outscored an earlier one and replaced it
C1_Witness ==
    /\ pc = "deduped"
    /\ Len(ret) < Len(arg)
    /\ \E i, j \in DOMAIN arg :
          /\ i < j
          /\ PostIdOf(arg[i]) = PostIdOf(arg[j])
          /\ Score(arg[i]) < Score(arg[j])
          /\ arg[j] \in Range(ret)

----------------------------------------------------------------------------
(* _extract_search_keywords as a function of its argument *)

MaxWords == 3

\* words the queries are made of: two technical terms, a stop word, two
\* plain words, one with a capital, and a word of two letters
Vocabulary ==
    { <<"g", "p", "t">>, <<"a", "p", "i">>, <<"t", "h", "e">>, <<"N", "i", "x">>,
      <<"w", "e", "b">>, <<"o", "k">> }

\* " ".join(ws)
RECURSIVE JoinWords(_)
JoinWords(ws) ==
    IF ws = <<>> THEN <<>>
    ELSE IF Len(ws) = 1 THEN ws[1]
    ELSE ws[1] \o <<" ">> \o JoinWords(Tail(ws))

KeywordQueries ==
    { JoinWords(ws) : ws \in UNION { [1..n -> Vocabulary] : n \in 0..MaxWords } }

InitKeywords ==
    /\ arg \in KeywordQueries
    /\ ret = <<>>
    /\ pc = "extract_only"
    /\ users = {}
    /\ categories = {}
    /\ AppIdle
    /\ issued = <<>>
    /\ posts = {}
    /\ topics = {}
    /\ query = None
    /\ limit = 0
    /\ all_results = <<>>
    /\ keywords = <<>>
    /\ kw_done = 0
    /\ result = <<>>
    /\ faults = 0
    /\ text_results = <<>>
    /\ semantic_results = <<>>

ExtractOnly ==
    /\ pc = "extract_only"
    /\ ret' = _extract_search_keywords(arg)
    /\ pc' = "extracted"
    /\ UNCHANGED <<app, users, issued, posts, topics, query, limit, all_results, keywords, kw_done,
                   result, faults, arg,
                   text_results, semantic_results>>

NextKeywords == ExtractOnly

SpecKeywords == InitKeywords /\ [][NextKeywords]_vars

\* C10: the list _extract_search_keywords returns holds no term twice.
C10_KeywordsDistinct ==
    pc = "extracted" =>
        \A i, j \in DOMAIN ret : i # j => ret[i] # ret[j]

\* C11: every term _extract_search_keywords returns is lower-case, longer
\* than 2 characters and no stop word; every term matching the technical-term
\* set comes before every term that does not; and inside each of the two
\* groups the terms are the query's words of that group, in the query's order.
C11_KeywordOrdering ==
    pc = "extracted" =>
        LET words == FindWords(lower(arg), <<>>)
            kept == SelectSeq(words, LAMBDA w : Len(w) > 2 /\ w \notin stop_words)
        IN  /\ \A i \in DOMAIN ret :
                  /\ ret[i] = lower(ret[i])
                  /\ Len(ret[i]) > 2
                  /\ ret[i] \notin stop_words
            /\ \A i, j \in DOMAIN ret :
                  i < j /\ IsTechnical(ret[j]) => IsTechnical(ret[i])
            /\ SelectSeq(ret, IsTechnical) = SelectSeq(kept, IsTechnical)
            /\ SelectSeq(ret, LAMBDA w : ~IsTechnical(w)) =
                  SelectSeq(kept, LAMBDA w : ~IsTechnical(w))

\* a query with a capital, a stop word or short word, and a plain word before
\* two distinct technical terms: the terms were moved to the front, in order
C11_Witness ==
    /\ pc = "extracted"
    /\ arg # lower(arg)
    /\ Len(ret) = 3
    /\ IsTechnical(ret[1]) /\ IsTechnical(ret[2]) /\ ~IsTechnical(ret[3])
    /\ ret[1] # ret[2]
    /\ FindWords(lower(arg), <<>>)[1] = ret[3]

----------------------------------------------------------------------------
(* Vector search: semantic_search, hybrid_search, find_similar_posts.      *)
(*                                                                         *)
(* An embedding is a unit vector of the plane at a multiple of 30 degrees, *)
(* written as the multiple; a NULL embedding is <<>> and a stored one <<a>>.*)
(* Scores and similarities are integers in units of 1/ScoreUnit, weights   *)
(* are in tenths, so a hybrid_score is in units of 1/(10 * ScoreUnit).     *)

\* 1000 keeps three digits of a cosine; 12 makes 1 - i/n exact for n <= 4
ScoreUnit == 1000 * 12

\* 1000 * cos(30 degrees * d) for d = 0..6
CosMilli == <<1000, 866, 500, 0, 0 - 500, 0 - 866, 0 - 1000>>

\* the pgvector operator <=>: cosine distance
CosineDistance(a, b) ==
    LET diff == IF a >= b THEN (a - b) % 12 ELSE (b - a) % 12
        d == IF diff > 6 THEN 12 - diff ELSE diff
    IN  ScoreUnit - 12 * CosMilli[d + 1]

\* (1 - (posts.content_embedding <=> :embedding::vector))
Similarity(a, b) == ScoreUnit - CosineDistance(a, b)

\* the embeddings of the posts and of the queries considered
PostAngles == { 0, 2, 3 }
QueryAngles == { 0, 1 }

\* similarity_threshold: the defaults 0.3 and 0.5, and 0.9
Thresholds == { (3 * ScoreUnit) \div 10, (5 * ScoreUnit) \div 10, (9 * ScoreUnit) \div 10 }

\* semantic_search's default similarity_threshold
DefaultThreshold == (3 * ScoreUnit) \div 10

\* semantic_weight and text_weight, in tenths: the defaults and two more
Weights == { [semantic |-> 6, text |-> 4], [semantic |-> 5, text |-> 5],
             [semantic |-> 10, text |-> 0] }

\* the content column read by full_text_search
Contents == { <<"P", "o", "d", "m", "a", "n">>, <<"g", "p", "t", " ", "a", "p", "i">> }

TextQueries == { <<"p", "o", "d", "m", "a", "n">>, <<"g", "p", "t">> }

\* the topics tables of the vector searches: one topic, any title
VecTopicTables ==
    { { [id |-> 1, title |-> ti, created_at |-> 1] } : ti \in Titles }

\* the posts tables of the vector searches
VecPostTables ==
    UNION { { { [id |-> i, content |-> f[i].content,
                 content_embedding |-> f[i].content_embedding,
                 topic_id |-> 1, created_at |-> f[i].created_at]
                : i \in 1..m }
              : f \in [1..m -> [content : Contents,
                                content_embedding :
                                    { <<>> } \cup { <<a>> : a \in PostAngles },
                                created_at : Times]] }
            : m \in 0..MaxPosts }

\* the floor applied to the distance, the "1 -" forgotten
AboveFloor_Distance(p, e, threshold) ==
    CosineDistance(p.content_embedding[1], e) >= threshold

\* a row passes the similarity floor of the WHERE clause
AboveFloor(p, e, threshold) ==
    Similarity(p.content_embedding[1], e) >= threshold

\* the rows the query of semantic_search selects (category_id = None)
SemanticMatches(e, threshold) ==
    { p \in posts : p.content_embedding # <<>> /\ AboveFloor(p, e, threshold) }

SemanticRow(p, e) ==
    [post_id |-> p.id, created_at |-> p.created_at,
     similarity_score |-> Similarity(p.content_embedding[1], e),
     search_type |-> "semantic"]

\* a query raises: the store fails, or the database rejects a negative LIMIT
Raises(outcome, n) == outcome = "error" \/ n < 0

\* the lists semantic_search returns for a query of embedding e, when its
\* query does not raise
semantic_search(e, n, threshold) ==
    { [i \in DOMAIN rows |-> SemanticRow(rows[i], e)] :
        rows \in OrderByLimit(SemanticMatches(e, threshold),
                    [p \in SemanticMatches(e, threshold) |->
                        <<Similarity(p.content_embedding[1], e)>>], n) }

\* the rows the query of full_text_search selects (no filters)
FullTextMatches(q) ==
    { p \in posts : \/ ILike(p.content, LikePattern(q))
                    \/ ILike(TopicOf(p).title, LikePattern(q)) }

FullTextRow(p) ==
    [post_id |-> p.id, created_at |-> p.created_at, search_type |-> "full_text"]

\* the result lists of full_text_search(q, limit=n, offset=0), when its
\* queries do not raise
full_text_search(q, n) ==
    { [i \in DOMAIN rows |-> FullTextRow(rows[i])] :
        rows \in OrderByLimit(FullTextMatches(q),
                    [p \in FullTextMatches(q) |-> <<p.created_at>>], n) }

\* {**result, "text_score": ..., ...}: r with the fields of more set
Merged(r, more) ==
    [k \in DOMAIN r \cup DOMAIN more |-> IF k \in DOMAIN more THEN more[k] ELSE r[k]]

\* 1.0 - (i / len(text_results)), i counted from 0
RankScore(i, n) == ScoreUnit - (i * ScoreUnit) \div n

\* the first loop of hybrid_search: the full-text results, scored by rank
RECURSIVE HybridTextLoop(_, _, _, _)
HybridTextLoop(combined, results, i, w) ==
    IF i >= Len(results) THEN combined
    ELSE LET r == results[i + 1]
             text_score == RankScore(i, Len(results))
             entry == Merged(r, [text_score |-> text_score, semantic_score |-> 0,
                                 hybrid_score |-> text_score * w.text])
             at == { k \in DOMAIN combined : combined[k].post_id = r.post_id }
         IN  HybridTextLoop(
                 IF at = {} THEN Append(combined, entry)
                 ELSE [combined EXCEPT ![CHOOSE k \in at : TRUE] = entry],
                 results, i + 1, w)

\* the update branch that forgets the text part of the score
HybridSemanticStep_Overwrites(combined, r, w) ==
    LET semantic_score == r.similarity_score
        at == { k \in DOMAIN combined : combined[k].post_id = r.post_id }
    IN  IF at # {}
        THEN [combined EXCEPT ![CHOOSE k \in at : TRUE] =
                 Merged(@, [semantic_score |-> semantic_score,
                            hybrid_score |-> semantic_score * w.semantic,
                            search_type |-> "hybrid"])]
        ELSE Append(combined,
                 Merged(r, [text_score |-> 0, semantic_score |-> semantic_score,
                            hybrid_score |-> semantic_score * w.semantic,
                            search_type |-> "hybrid"]))

\* one iteration of the second loop of hybrid_search
HybridSemanticStep(combined, r, w) ==
    LET semantic_score == r.similarity_score
        at == { k \in DOMAIN combined : combined[k].post_id = r.post_id }
    IN  IF at # {}
        THEN [combined EXCEPT ![CHOOSE k \in at : TRUE] =
                 Merged(@, [semantic_score |-> semantic_score,
                            hybrid_score |-> @.text_score * w.text
                                             + semantic_score * w.semantic,
                            search_type |-> "hybrid"])]
        ELSE Append(combined,
                 Merged(r, [text_score |-> 0, semantic_score |-> semantic_score,
                            hybrid_score |-> semantic_score * w.semantic,
                            search_type |-> "hybrid"]))

RECURSIVE HybridSemanticLoop(_, _, _)
HybridSemanticLoop(combined, results, w) ==
    IF results = <<>> THEN combined
    ELSE HybridSemanticLoop(HybridSemanticStep(combined, Head(results), w),
                            Tail(results), w)

\* sorted(..., key=hybrid_score, reverse=True): stable, descending
RECURSIVE SortedByHybridDesc(_)
SortedByHybridDesc(s) ==
    IF s = <<>> THEN <<>>
    ELSE LET rest == SortedByHybridDesc(SubSeq(s, 1, Len(s) - 1))
             x == s[Len(s)]
             k == Cardinality({ i \in DOMAIN rest :
                                  rest[i].hybrid_score >= x.hybrid_score })
         IN  SubSeq(rest, 1, k) \o <<x>> \o SubSeq(rest, k + 1, Len(rest))

\* the combining part of hybrid_search
HybridCombined(texts, semantics, w) ==
    SortedByHybridDesc(
        HybridSemanticLoop(HybridTextLoop(<<>>, texts, 0, w), semantics, w))

\* hybrid_search(q, l, semantic_weight, text_weight) is called
HybridCall(q, l, w) ==
    /\ pc = "idle"
    /\ arg' = [query |-> q, limit |-> l, weights |-> w]
    /\ pc' = "hybrid_text"
    /\ UNCHANGED <<app, users, issued, posts, topics, query, limit, all_results, keywords, kw_done,
                   result, faults, ret, text_results, semantic_results>>

\* text_results, _ = self.full_text_search(query, limit=limit*2, ...): the
\* count query, then the search query
HybridText ==
    /\ pc = "hybrid_text"
    /\ \E count_outcome \in Outcomes, outcome \in Outcomes :
          LET count == [op |-> "full_text_search.count",
                        param |-> LikePattern(arg.query), outcome |-> count_outcome]
              search == Issued("full_text_search", LikePattern(arg.query),
                               arg.limit * 2, outcome)
          IN  IF count_outcome = "error"
              THEN /\ pc' = "raised"
                   /\ issued' = Append(issued, count)
                   /\ UNCHANGED text_results
              ELSE /\ issued' = issued \o <<count, search>>
                   /\ IF Raises(outcome, arg.limit * 2)
                      THEN pc' = "raised" /\ UNCHANGED text_results
                      ELSE /\ pc' = "hybrid_semantic"
                           /\ text_results' \in
                                  full_text_search(arg.query, arg.limit * 2)
    /\ UNCHANGED <<app, users, posts, topics, query, limit, all_results, keywords, kw_done,
                   result, faults, arg, ret, semantic_results>>

\* semantic_results = self.semantic_search(query, limit=limit*2, ...); e is
\* the embedding the model gives the query
HybridSemantic ==
    /\ pc = "hybrid_semantic"
    /\ \E outcome \in Outcomes, e \in QueryAngles :
          /\ issued' = Append(issued, Issued("semantic_search", e, arg.limit * 2, outcome))
          /\ IF Raises(outcome, arg.limit * 2)
             THEN pc' = "raised" /\ UNCHANGED semantic_results
             ELSE /\ pc' = "hybrid_combine"
                  /\ semantic_results' \in
                      semantic_search(e, arg.limit * 2, DefaultThreshold)
    /\ UNCHANGED <<app, users, posts, topics, query, limit, all_results, keywords, kw_done,
                   result, faults, arg, ret, text_results>>

\* a combining step that computes 1 / len(text_results) ahead of its loop:
\* ZeroDivisionError when the text search found nothing
HybridCombine_NormalizesFirst ==
    /\ pc = "hybrid_combine"
    /\ IF text_results = <<>>
       THEN pc' = "raised" /\ UNCHANGED ret
       ELSE /\ ret' = Slice(HybridCombined(text_results, semantic_results,
                                           arg.weights), arg.limit)
            /\ pc' = "hybrid_done"
    /\ UNCHANGED <<app, users, issued, posts, topics, query, limit, all_results, keywords,
                   kw_done, result, faults, arg, text_results, semantic_results>>

\* combine, sort by hybrid score and return the top results
HybridCombine ==
    /\ pc = "hybrid_combine"
    /\ ret' = Slice(HybridCombined(text_results, semantic_results, arg.weights),
                    arg.limit)
    /\ pc' = "hybrid_done"
    /\ UNCHANGED <<app, users, issued, posts, topics, query, limit, all_results, keywords, kw_done,
                   result, faults, arg, text_results, semantic_results>>

\* semantic_search(query, l, threshold) is called and returns or raises
SemanticSearch(e, l, threshold) ==
    /\ pc = "idle"
    /\ arg' = [query_embedding |-> e, limit |-> l, threshold |-> threshold]
    /\ \E outcome \in Outcomes :
          /\ issued' = Append(issued, Issued("semantic_search", e, l, outcome))
          /\ IF Raises(outcome, l)
             THEN pc' = "raised" /\ UNCHANGED ret
             ELSE /\ pc' = "semantic_done"
                  /\ ret' \in semantic_search(e, l, threshold)
    /\ UNCHANGED <<app, users, posts, topics, query, limit, all_results, keywords, kw_done,
                   result, faults, text_results, semantic_results>>

\* the rows of the reference query of find_similar_posts
ReferenceRows(post_id) ==
    { p \in posts : p.id = post_id /\ p.content_embedding # <<>> }

\* the rows the similarity query of find_similar_posts selects
SimilarMatches(post_id, e, threshold) ==
    { p \in posts : /\ p.id # post_id
                    /\ p.content_embedding # <<>>
                    /\ AboveFloor(p, e, threshold) }

SimilarRow(p, e) ==
    [post_id |-> p.id, created_at |-> p.created_at,
     similarity_score |-> Similarity(p.content_embedding[1], e)]

\* find_similar_posts without its "no embedding found" return: the
\* neighbours of a zero embedding are looked up instead
find_similar_posts_NoCheck(post_id, n, threshold) ==
    LET e == IF ReferenceRows(post_id) = {} THEN 0
             ELSE (CHOOSE p \in ReferenceRows(post_id) : TRUE).content_embedding[1]
    IN  { [i \in DOMAIN rows |-> SimilarRow(rows[i], e)] :
            rows \in OrderByLimit(SimilarMatches(post_id, e, threshold),
                        [p \in SimilarMatches(post_id, e, threshold) |->
                            <<Similarity(p.content_embedding[1], e)>>], n) }

\* the lists find_similar_posts can return, when its queries do not raise
find_similar_posts(post_id, n, threshold) ==
    IF ReferenceRows(post_id) = {} THEN { <<>> }
    ELSE LET e == (CHOOSE p \in ReferenceRows(post_id) : TRUE).content_embedding[1]
         IN  { [i \in DOMAIN rows |-> SimilarRow(rows[i], e)] :
                 rows \in OrderByLimit(SimilarMatches(post_id, e, threshold),
                             [p \in SimilarMatches(post_id, e, threshold) |->
                                 <<Similarity(p.content_embedding[1], e)>>], n) }

\* find_similar_posts that embeds a reference post lacking an embedding and
\* writes the embedding to its row
FindSimilarPosts_StoresEmbedding(post_id, l, threshold) ==
    /\ pc = "idle"
    /\ arg' = [post_id |-> post_id, limit |-> l, threshold |-> threshold]
    /\ issued' = Append(issued, [op |-> "find_similar_posts.ref", param |-> post_id,
                                 outcome |-> "ok"])
    /\ posts' = { IF p.id = post_id /\ p.content_embedding = <<>>
                  THEN [p EXCEPT !.content_embedding = <<0>>] ELSE p : p \in posts }
    /\ pc' = "similar_done"
    /\ ret' = <<>>
    /\ UNCHANGED <<app, users, topics, query, limit, all_results, keywords, kw_done,
                   result, faults, text_results, semantic_results>>

\* find_similar_posts(post_id, l, threshold) is called and returns or raises
FindSimilarPosts(post_id, l, threshold) ==
    /\ pc = "idle"
    /\ arg' = [post_id |-> post_id, limit |-> l, threshold |-> threshold]
    /\ \E ref_outcome \in Outcomes, outcome \in Outcomes :
          LET ref == [op |-> "find_similar_posts.ref", param |-> post_id,
                      outcome |-> ref_outcome]
          IN  /\ issued' =
                    IF ref_outcome = "error" \/ ReferenceRows(post_id) = {}
                    THEN Append(issued, ref)
                    ELSE issued \o <<ref, Issued("find_similar_posts",
                             (CHOOSE p \in ReferenceRows(post_id) : TRUE).content_embedding[1],
                             l, outcome)>>
              /\ IF \/ ref_outcome = "error"
                    \/ ReferenceRows(post_id) # {} /\ Raises(outcome, l)
                 THEN pc' = "raised" /\ UNCHANGED ret
                 ELSE /\ pc' = "similar_done"
                      /\ ret' \in find_similar_posts(post_id, l, threshold)
    /\ UNCHANGED <<app, users, posts, topics, query, limit, all_results, keywords, kw_done,
                   result, faults, text_results, semantic_results>>

\* the caller has the list, or the exception
ReturnVec ==
    /\ pc \in {"hybrid_done", "semantic_done", "similar_done", "raised"}
    /\ pc' = "idle"
    /\ issued' = <<>>
    /\ arg' = <<>>
    /\ ret' = <<>>
    /\ text_results' = <<>>
    /\ semantic_results' = <<>>
    /\ UNCHANGED <<app, users, posts, topics, query, limit, all_results, keywords, kw_done,
                   result, faults>>

InitVec ==
    /\ topics \in VecTopicTables
    /\ posts \in VecPostTables
    /\ pc = "idle"
    /\ users = {}
    /\ categories = Categories
    /\ AppIdle
    /\ issued = <<>>
    /\ query = None
    /\ limit = 0
    /\ all_results = <<>>
    /\ keywords = <<>>
    /\ kw_done = 0
    /\ result = <<>>
    /\ faults = 0
    /\ arg = <<>>
    /\ ret = <<>>
    /\ text_results = <<>>
    /\ semantic_results = <<>>

NextVec ==
    \/ \E q \in TextQueries, l \in Limits, w \in Weights : HybridCall(q, l, w)
    \/ HybridText
    \/ HybridSemantic
    \/ HybridCombine
    \/ \E e \in QueryAngles, l \in Limits, th \in Thresholds : SemanticSearch(e, l, th)
    \/ \E id \in 1..(MaxPosts + 1), l \in Limits, th \in Thresholds :
          FindSimilarPosts(id, l, th)
    \/ ReturnVec

SpecVec == InitVec /\ [][NextVec]_vars

\* C5: a result of hybrid_search found by both searches, with text score t
\* and similarity s, has hybrid_score t*text_weight + s*semantic_weight; one
\* found by the text search alone has t*text_weight and semantic_score 0; one
\* found by the semantic search alone has s*semantic_weight and text_score 0.
C5_HybridAdditivity ==
    pc = "hybrid_done" =>
        \A i \in DOMAIN ret :
            LET r == ret[i]
                tpos == { k \in DOMAIN text_results :
                            text_results[k].post_id = r.post_id }
                spos == { k \in DOMAIN semantic_results :
                            semantic_results[k].post_id = r.post_id }
                t == IF tpos = {} THEN 0
                     ELSE RankScore((CHOOSE k \in tpos : TRUE) - 1, Len(text_results))
                s == IF spos = {} THEN 0
                     ELSE semantic_results[CHOOSE k \in spos : TRUE].similarity_score
            IN  /\ tpos # {} \/ spos # {}
                /\ r.text_score = t
                /\ r.semantic_score = s
                /\ r.hybrid_score = t * arg.weights.text + s * arg.weights.semantic

\* hybrid_search returned a post found by both searches, both parts of its
\* score positive, and a post found by one search only
C5_Witness ==
    /\ pc = "hybrid_done"
    /\ arg.weights.text > 0
    /\ arg.weights.semantic > 0
    /\ \E i \in DOMAIN ret :
          /\ ret[i].text_score > 0
          /\ ret[i].semantic_score > 0
          /\ \E k \in DOMAIN text_results : text_results[k].post_id = ret[i].post_id
          /\ \E k \in DOMAIN semantic_results :
                semantic_results[k].post_id = ret[i].post_id
    /\ \E i \in DOMAIN ret :
          ~ \E k \in DOMAIN semantic_results :
                semantic_results[k].post_id = ret[i].post_id

\* C6: no entry returned by semantic_search or by find_similar_posts has a
\* similarity_score below the requested threshold.
C6_SimilarityFloor ==
    pc \in {"semantic_done", "similar_done"} =>
        \A i \in DOMAIN ret : ret[i].similarity_score >= arg.threshold

\* semantic_search returned a post while the store held an embedded post
\* below the threshold
C6_Witness ==
    /\ pc = "semantic_done"
    /\ ret # <<>>
    /\ \E p \in posts :
          /\ p.content_embedding # <<>>
          /\ Similarity(p.content_embedding[1], arg.query_embedding) < arg.threshold

\* C13: when the reference post has no stored embedding, or does not exist,
\* and the reference query answered, find_similar_posts returns the empty
\* list, does not raise, and issues no nearest-neighbour query.
C13_NeighborSoftFailure ==
    /\ pc \in {"similar_done", "raised"}
    /\ "post_id" \in DOMAIN arg
    /\ ReferenceRows(arg.post_id) = {}
    /\ issued[1].outcome = "ok"
    => /\ pc = "similar_done"
       /\ ret = <<>>
       /\ Len(issued) = 1
       /\ issued[1].op = "find_similar_posts.ref"

\* find_similar_posts returned [] for a post stored without embedding while
\* another post, with an embedding, was within reach of the threshold
C13_Witness ==
    /\ pc = "similar_done"
    /\ ret = <<>>
    /\ arg.limit >= 1
    /\ \E p \in posts : p.id = arg.post_id /\ p.content_embedding = <<>>
    /\ \E p \in posts :
          /\ p.id # arg.post_id
          /\ p.content_embedding # <<>>
          /\ Similarity(p.content_embedding[1], 0) >= arg.threshold

----------------------------------------------------------------------------
(* get_trending_topics. Time is counted in days; NOW() is day Now.         *)

MaxDay == 3
MaxWindow == 2
MaxLikes == 1
MaxUsers == 2

Now == MaxDay

\* the SQL NULL of an integer column or aggregate (no like count is negative)
NULL == 0 - 1
Days == 1..MaxDay
Windows == 0..MaxWindow

\* the topics tables of the trend query: topics 1..n, created on any day
TrendTopicTables ==
    UNION { { { [id |-> i, created_at |-> f[i]] : i \in 1..n }
              : f \in [1..n -> Days] }
            : n \in 1..MaxTopics }

\* the posts tables of the trend query, with the columns it reads
TrendPostTables(tt) ==
    UNION { { { [id |-> i, topic_id |-> f[i].topic_id, created_at |-> f[i].created_at,
                 like_count |-> f[i].like_count, user_id |-> f[i].user_id]
                : i \in 1..m }
              : f \in [1..m -> [topic_id : { t.id : t \in tt }, created_at : Days,
                                like_count : { NULL } \cup 0..MaxLikes,
                                user_id : 1..MaxUsers]] }
            : m \in 0..MaxPosts }

\* the sum of the like counts of the rows S, none of them NULL
RECURSIVE SumNonNull(_)
SumNonNull(S) ==
    IF S = {} THEN 0
    ELSE LET p == CHOOSE p \in S : TRUE IN p.like_count + SumNonNull(S \ {p})

\* SUM(posts.like_count) over the rows S: NULL values are skipped, and the
\* sum is NULL when no row has a value
SumLikes(S) ==
    IF \A p \in S : p.like_count = NULL THEN NULL
    ELSE SumNonNull({ p \in S : p.like_count # NULL })

\* row.total_likes or 0
OrZero(v) == IF v = NULL THEN 0 ELSE v

\* MAX(posts.created_at) over the rows S; 0 stands for the NULL of no row
MaxCreated(S) ==
    IF S = {} THEN 0 ELSE CHOOSE d \in { p.created_at : p \in S } :
                              \A p \in S : p.created_at <= d

\* LEFT JOIN posts ON topics.id = posts.topic_id
\*   AND posts.created_at >= NOW() - INTERVAL '{days} days'
RecentPosts(t, days) ==
    { p \in posts : p.topic_id = t.id /\ p.created_at >= Now - days }

\* WHERE topics.created_at >= NOW() - INTERVAL '{days*2} days', GROUP BY topic
TrendGroup(t, days) ==
    [topic_id |-> t.id,
     recent_posts |-> Cardinality(RecentPosts(t, days)),
     total_likes |-> SumLikes(RecentPosts(t, days)),
     last_activity |-> MaxCreated(RecentPosts(t, days)),
     unique_participants |-> Cardinality({ p.user_id : p \in RecentPosts(t, days) })]

\* the query without its HAVING clause
Having_Absent(g) == TRUE

\* HAVING COUNT(posts.id) > 0
Having(g) == g.recent_posts > 0

TrendRows(days) ==
    { g \in { TrendGroup(t, days) :
                t \in { t \in topics : t.created_at >= Now - days * 2 } } :
        Having(g) }

\* the dictionary the code makes of a row
TrendResult(g) == [g EXCEPT !.total_likes = OrZero(@)]

\* ORDER BY COUNT(posts.id) DESC, SUM(posts.like_count) DESC,
\* MAX(posts.created_at) DESC: in a descending order the database puts NULL
\* before every value
TrendKey(g) ==
    <<g.recent_posts, IF g.total_likes = NULL THEN 1 ELSE 0, g.total_likes,
      g.last_activity>>

\* the lists get_trending_topics returns when its query does not raise
get_trending_topics(days, n) ==
    { [i \in DOMAIN rows |-> TrendResult(rows[i])] :
        rows \in OrderByLimit(TrendRows(days),
                    [g \in TrendRows(days) |-> TrendKey(g)], n) }

\* get_trending_topics(days, l) is called and returns or raises
GetTrendingTopics(days, l) ==
    /\ pc = "idle"
    /\ arg' = [days |-> days, limit |-> l]
    /\ \E outcome \in Outcomes :
          /\ issued' = Append(issued, Issued("get_trending_topics", days, l, outcome))
          /\ IF Raises(outcome, l)
             THEN pc' = "raised" /\ UNCHANGED ret
             ELSE /\ pc' = "trend_done"
                  /\ ret' \in get_trending_topics(days, l)
    /\ UNCHANGED <<app, users, posts, topics, query, limit, all_results, keywords, kw_done,
                   result, faults, text_results, semantic_results>>

\* the caller has the list, or the exception
ReturnTrend ==
    /\ pc \in {"trend_done", "raised"}
    /\ pc' = "idle"
    /\ issued' = <<>>
    /\ arg' = <<>>
    /\ ret' = <<>>
    /\ UNCHANGED <<app, users, posts, topics, query, limit, all_results, keywords, kw_done,
                   result, faults, text_results, semantic_results>>

InitTrend ==
    /\ topics \in TrendTopicTables
    /\ posts \in TrendPostTables(topics)
    /\ pc = "idle"
    /\ users = {}
    /\ categories = Categories
    /\ AppIdle
    /\ issued = <<>>
    /\ query = None
    /\ limit = 0
    /\ all_results = <<>>
    /\ keywords = <<>>
    /\ kw_done = 0
    /\ result = <<>>
    /\ faults = 0
    /\ arg = <<>>
    /\ ret = <<>>
    /\ text_results = <<>>
    /\ semantic_results = <<>>

NextTrend ==
    \/ \E days \in Windows, l \in Limits : GetTrendingTopics(days, l)
    \/ ReturnTrend

SpecTrend == InitTrend /\ [][NextTrend]_vars

\* C7: a topic with no post created inside the last `days` days is not in the
\* output of get_trending_topics(days, ...), even when it was created within
\* 2*days.
C7_TrendWindowExclusion ==
    pc = "trend_done" =>
        \A i \in DOMAIN ret :
            \E p \in posts : /\ p.topic_id = ret[i].topic_id
                             /\ p.created_at >= Now - arg.days

\* a trending list was returned while a topic created within 2*days, with
\* posts but none inside the window, was left out
C7_Witness ==
    /\ pc = "trend_done"
    /\ ret # <<>>
    /\ Len(ret) < arg.limit
    /\ \E t \in topics :
          /\ t.created_at >= Now - 2 * arg.days
          /\ \E p \in posts : p.topic_id = t.id
          /\ \A p \in posts : p.topic_id = t.id => p.created_at < Now - arg.days
          /\ \A i \in DOMAIN ret : ret[i].topic_id # t.id

\* C19: the list get_trending_topics returns is in descending lexicographic
\* order of (recent_posts, total_likes, last_activity).
C19_TrendRankingOrder ==
    pc = "trend_done" =>
        \A i, j \in DOMAIN ret :
            i < j => ~LexGreater(
                <<ret[j].recent_posts, ret[j].total_likes, ret[j].last_activity>>,
                <<ret[i].recent_posts, ret[i].total_likes, ret[i].last_activity>>)

----------------------------------------------------------------------------
(* search_users *)

\* the rows the query of search_users selects
UserMatches(q) ==
    { u \in users : \/ ILike(u.username, LikePattern(q))
                    \/ ILike(u.name, LikePattern(q)) }

\* LEFT JOIN posts ON users.id = posts.user_id, GROUP BY users.id
UserRow(u) ==
    [user_id |-> u.id,
     post_count |-> Cardinality({ p \in posts : p.user_id = u.id }),
     total_likes_received |-> OrZero(SumLikes({ p \in posts : p.user_id = u.id }))]

\* the lists search_users returns when its query does not raise
search_users(q, n) ==
    { [i \in DOMAIN rows |-> UserRow(rows[i])] :
        rows \in OrderByLimit(UserMatches(q),
                    [u \in UserMatches(q) |->
                        <<UserRow(u).post_count,
                          IF SumLikes({ p \in posts : p.user_id = u.id }) = NULL
                          THEN 1 ELSE 0,
                          UserRow(u).total_likes_received>>], n) }

\* search_users(q, l) is called and returns or raises
SearchUsers(q, l) ==
    /\ pc = "idle"
    /\ arg' = [query |-> q, limit |-> l]
    /\ \E outcome \in Outcomes :
          /\ issued' = Append(issued, Issued("search_users", LikePattern(q), l, outcome))
          /\ IF Raises(outcome, l)
             THEN pc' = "raised" /\ UNCHANGED ret
             ELSE /\ pc' = "users_done"
                  /\ ret' \in search_users(q, l)
    /\ UNCHANGED <<app, users, posts, topics, query, limit, all_results, keywords, kw_done,
                   result, faults, text_results, semantic_results>>

\* the caller has the list
ReturnUsers ==
    /\ pc = "users_done"
    /\ pc' = "idle"
    /\ issued' = <<>>
    /\ arg' = <<>>
    /\ ret' = <<>>
    /\ UNCHANGED <<app, users, posts, topics, query, limit, all_results, keywords, kw_done,
                   result, faults, text_results, semantic_results>>

----------------------------------------------------------------------------
(* The whole service over one store: every entry point of SearchService,   *)
(* called by routes.py, main.py and rag_manager.py. A row of the store     *)
(* carries every column some query reads.                                  *)

\* the posts considered: a recent embedded post, an old post without
\* embedding, a recent post with another embedding
ServicePosts ==
    { [raw |-> <<"P", "o", "d", "m", "a", "n">>,
       cooked |-> <<"<", "p", ">", "P", "o", "d", "m", "a", "n", "<", "/", "p", ">">>,
       content |-> <<"P", "o", "d", "m", "a", "n">>,
       content_embedding |-> <<0>>, created_at |-> Now, like_count |-> 1],
      [raw |-> <<"g", "p", "t", " ", "a", "p", "i">>,
       cooked |-> <<"<", "p", ">", "g", "p", "t", " ", "a", "p", "i", "<", "/", "p", ">">>,
       content |-> <<"g", "p", "t", " ", "a", "p", "i">>,
       content_embedding |-> <<>>, created_at |-> 1, like_count |-> 0],
      [raw |-> <<"g", "p", "t", " ", "a", "p", "i">>,
       cooked |-> <<"<", "p", ">", "g", "p", "t", " ", "a", "p", "i", "<", "/", "p", ">">>,
       content |-> <<"g", "p", "t", " ", "a", "p", "i">>,
       content_embedding |-> <<3>>, created_at |-> Now, like_count |-> 0] }

\* the users tables: users 1..n; the posts are written by user 1
ServiceUserTables ==
    { { [id |-> i,
         username |-> IF i % 2 = 1 THEN <<"p", "o", "d", "m", "a", "n">>
                      ELSE <<"g", "p", "t">>,
         name |-> <<"n", "o", "n", "e">>] : i \in 1..n } : n \in 0..MaxUsers }

\* one topic, any title, created today
ServiceTopicTables ==
    { { [id |-> 1, title |-> ti, created_at |-> Now] } : ti \in Titles }

\* the posts tables: posts 1..m of topic 1 and user 1; none without a user
ServicePostTables(ut) ==
    UNION { { { [id |-> i, raw |-> f[i].raw, cooked |-> f[i].cooked,
                 content |-> f[i].content,
                 content_embedding |-> f[i].content_embedding,
                 created_at |-> f[i].created_at, like_count |-> f[i].like_count,
                 topic_id |-> 1, user_id |-> 1]
                : i \in 1..m }
              : f \in [1..m -> ServicePosts] }
            : m \in 0..(IF ut = {} THEN 0 ELSE MaxPosts) }

\* a fuller posts table: each word of "gpt api tds" has its own most recent
\* post, and two older posts hold the whole phrase
CrowdedPosts ==
    { [id |-> 1, raw |-> <<"g", "p", "t">>,
       cooked |-> <<"<", "p", ">", "g", "p", "t", "<", "/", "p", ">">>,
       content |-> <<"g", "p", "t">>,
       content_embedding |-> <<>>, created_at |-> 5, like_count |-> 0,
       topic_id |-> 1, user_id |-> 1],
      [id |-> 2, raw |-> <<"a", "p", "i">>,
       cooked |-> <<"<", "p", ">", "a", "p", "i", "<", "/", "p", ">">>,
       content |-> <<"a", "p", "i">>,
       content_embedding |-> <<>>, created_at |-> 4, like_count |-> 0,
       topic_id |-> 1, user_id |-> 1],
      [id |-> 3, raw |-> <<"t", "d", "s">>,
       cooked |-> <<"<", "p", ">", "t", "d", "s", "<", "/", "p", ">">>,
       content |-> <<"t", "d", "s">>,
       content_embedding |-> <<>>, created_at |-> 3, like_count |-> 0,
       topic_id |-> 1, user_id |-> 1],
      [id |-> 4, raw |-> <<"g", "p", "t", " ", "a", "p", "i", " ", "t", "d", "s">>,
       cooked |-> <<"<", "p", ">", "g", "p", "t", " ", "a", "p", "i", " ", "t", "d", "s", "<", "/", "p", ">">>,
       content |-> <<"g", "p", "t", " ", "a", "p", "i", " ", "t", "d", "s">>,
       content_embedding |-> <<>>, created_at |-> 2, like_count |-> 0,
       topic_id |-> 1, user_id |-> 1],
      [id |-> 5, raw |-> <<"g", "p", "t", " ", "a", "p", "i", " ", "t", "d", "s">>,
       cooked |-> <<"<", "p", ">", "g", "p", "t", " ", "a", "p", "i", " ", "t", "d", "s", "<", "/", "p", ">">>,
       content |-> <<"g", "p", "t", " ", "a", "p", "i", " ", "t", "d", "s">>,
       content_embedding |-> <<>>, created_at |-> 1, like_count |-> 0,
       topic_id |-> 1, user_id |-> 1] }

\* the queries the callers pass: a word, three words, the empty string, no
\* question
ServiceQueries ==
    { <<"p", "o", "d", "m", "a", "n">>, <<"g", "p", "t", " ", "a", "p", "i", " ", "t", "d", "s">>, <<>>, None }

\* the limits comprehensive_search is called with: small ones, the 10 of
\* routes.ask_virtual_ta, and a large one (rag_manager.py --limit is passed
\* on as it is); the routes bound the limit of the other entry points
ServiceLimits == Limits \cup { 10, 1000 }

InitService ==
    /\ users \in ServiceUserTables
    /\ categories = Categories
    /\ AppIdle
    /\ topics \in ServiceTopicTables
    /\ posts \in ServicePostTables(users) \cup
                (IF users = {} THEN {} ELSE { CrowdedPosts })
    /\ pc = "idle"
    /\ issued = <<>>
    /\ query = None
    /\ limit = 0
    /\ all_results = <<>>
    /\ keywords = <<>>
    /\ kw_done = 0
    /\ result = <<>>
    /\ faults = 0
    /\ arg = <<>>
    /\ ret = <<>>
    /\ text_results = <<>>
    /\ semantic_results = <<>>

NextService ==
    \/ \E q \in ServiceQueries, l \in ServiceLimits : Call(q, l)
    \/ ExactPhrase
    \/ FullKeyword
    \/ ExtractKeywords
    \/ SingleKeyword
    \/ KeywordsDone
    \/ TopicTitle
    \/ Merge
    \/ Fallback
    \/ Return
    \/ \E q \in ServiceQueries \ { None }, l \in Limits :
          HybridCall(q, l, [semantic |-> 6, text |-> 4])
    \/ HybridText
    \/ HybridSemantic
    \/ HybridCombine
    \/ \E e \in QueryAngles, l \in Limits : SemanticSearch(e, l, DefaultThreshold)
    \/ \E id \in 1..(MaxPosts + 1), l \in Limits :
          FindSimilarPosts(id, l, (5 * ScoreUnit) \div 10)
    \/ \E days \in Windows, l \in Limits : GetTrendingTopics(days, l)
    \/ pc = "trend_done" /\ ReturnTrend
    \/ \E q \in ServiceQueries \ { None }, l \in Limits : SearchUsers(q, l)
    \/ ReturnVec
    \/ ReturnUsers

SpecService == InitService /\ [][NextService]_vars

\* C12: for every limit >= 0 and every store, comprehensive_search, on its
\* normal and on its fallback path, and hybrid_search return at most `limit`
\* results.
C12_ResultBound ==
    /\ pc \in {"done", "fellback"} /\ limit >= 0 => Len(result) <= limit
    /\ pc = "hybrid_done" /\ arg.limit >= 0 => Len(ret) <= arg.limit

\* comprehensive_search gathered more distinct posts than its limit and
\* returned exactly `limit` of them
C12_Witness ==
    /\ pc = "done"
    /\ limit >= 1
    /\ Len(_deduplicate_results(all_results)) > limit
    /\ Len(result) = limit

\* C14: a zero-length query passed to comprehensive_search or hybrid_search
\* is rejected before any store query is issued: no call with an empty query
\* has a query in its log, and none returns a post.
C14_EmptyQueryRejected ==
    /\ query = <<>> => issued = <<>> /\ result = <<>>
    /\ pc \in {"hybrid_text", "hybrid_semantic", "hybrid_combine", "hybrid_done"}
       /\ arg.query = <<>> => issued = <<>> /\ ret = <<>>

\* C15: whatever limit the caller supplies, no entry point issues a store
\* query with a row limit above 200.
C15_LimitClamped ==
    \A i \in DOMAIN issued :
        "limit" \in DOMAIN issued[i] => issued[i].limit <= 200

\* C18: no entry point raises unless a store query of the call raised, and
\* when the store answers every query of a call with zero rows the call
\* returns the empty list; in particular hybrid_search does so when the text
\* search found nothing.
C18_EmptyResultNoError ==
    /\ pc = "raised" => \E i \in DOMAIN issued : issued[i].outcome = "error"
    /\ pc = "done" /\ all_results = <<>> => result = <<>>
    /\ pc = "hybrid_done" /\ text_results = <<>> /\ semantic_results = <<>>
         => ret = <<>>
    /\ pc = "semantic_done"
       /\ SemanticMatches(arg.query_embedding, arg.threshold) = {} => ret = <<>>
    /\ pc = "similar_done" /\ ReferenceRows(arg.post_id) = {} => ret = <<>>
    /\ pc = "trend_done" /\ TrendRows(arg.days) = {} => ret = <<>>
    /\ pc = "users_done" /\ UserMatches(arg.query) = {} => ret = <<>>

\* hybrid_search returned [] over a store with posts, neither of its searches
\* having found a row nor raised
C18_Witness ==
    /\ pc = "hybrid_done"
    /\ posts # {}
    /\ arg.limit >= 1
    /\ text_results = <<>>
    /\ semantic_results = <<>>
    /\ ret = <<>>
    /\ \A i \in DOMAIN issued : issued[i].outcome = "ok"

\* C20: in every mode comprehensive_search uses the lexical matcher in
\* (exact phrase, full keyword, single keyword, topic title), the rows it
\* gets are in descending order of post creation time, and no matching post
\* left out is more recent than a row kept.
C20_LexicalOrdering ==
    pc = "done" =>
        LET kws == Slice(keywords, MaxKeywordQueries)
            modes ==
                { [method |-> <<"exact_phrase">>, matches |-> SimpleMatches(Quoted(query))],
                  [method |-> <<"keywords">>, matches |-> SimpleMatches(query)],
                  [method |-> <<"topic_title">>, matches |-> TopicMatches(query)] }
                \cup (IF Cardinality(Range(kws)) = Len(kws)
                      THEN { [method |-> <<"keyword_", kws[i]>>,
                              matches |-> SimpleMatches(kws[i])] : i \in DOMAIN kws }
                      ELSE {})
        IN  \A m \in modes :
                LET seg == SelectSeq(all_results, LAMBDA r : r.search_method = m.method)
                IN  /\ \A i, j \in DOMAIN seg :
                          i < j => seg[i].created_at >= seg[j].created_at
                    /\ \A x \in m.matches :
                          (\A i \in DOMAIN seg : seg[i].post_id # x.id)
                              => \A i \in DOMAIN seg : seg[i].created_at >= x.created_at

\* C26: _deduplicate_results replaces a stored entry only by a candidate of
\* strictly greater score, so every entry comprehensive_search returns is the
\* first candidate, in all_results, of its post among those of its score
\* (with the search_method tag of that candidate); and returned entries of
\* distinct posts with equal scores are in the order in which the posts
\* first appear in all_results.
C26_MergeTieBreaking ==
    pc = "done" =>
        LET First(S) == CHOOSE j \in S : \A k \in S : j <= k
            Of(id) == { j \in DOMAIN all_results : PostIdOf(all_results[j]) = id }
        IN  /\ \A i \in DOMAIN result :
                  LET ties == { j \in Of(PostIdOf(result[i])) :
                                  Score(all_results[j]) = Score(result[i]) }
                  IN  /\ ties # {}
                      /\ result[i] = all_results[First(ties)]
            /\ \A i, j \in DOMAIN result :
                  i < j /\ Score(result[i]) = Score(result[j])
                      => First(Of(PostIdOf(result[i]))) < First(Of(PostIdOf(result[j])))

\* two keywords found the same two posts: each post is returned once, under
\* the tag of the keyword that found it first, and the two posts, of equal
\* score, are returned in the order the first keyword query gave them
C26_Witness ==
    /\ pc = "done"
    /\ \E i, j \in DOMAIN all_results :
          /\ i < j
          /\ PostIdOf(all_results[i]) = PostIdOf(all_results[j])
          /\ Score(all_results[i]) = Score(all_results[j])
          /\ all_results[i].search_method # all_results[j].search_method
          /\ all_results[i] \in Range(result)
    /\ \E i \in 1..(Len(result) - 1) :
          /\ PostIdOf(result[i]) # PostIdOf(result[i + 1])
          /\ Score(result[i]) = Score(result[i + 1])

\* C22: no operation of SearchService changes a row of the posts, topics,
\* categories or users table: every step of every call, faulting or not,
\* leaves the store as it was.
C22_ReadOnlyEngine ==
    [][/\ posts' = posts /\ topics' = topics
       /\ categories' = categories /\ users' = users]_vars

\* a call whose store query raised has ended, over a store with rows in
\* every table
C22_Witness ==
    /\ pc = "raised"
    /\ \E i \in DOMAIN issued : issued[i].outcome = "error"
    /\ posts # {} /\ topics # {} /\ categories # {} /\ users # {}

\* C27: every result hybrid_search returns is tagged search_type "hybrid",
\* whether the text search alone, the semantic search alone, or both found
\* the post.
C27_HybridMethodTag ==
    pc = "hybrid_done" => \A i \in DOMAIN ret : ret[i].search_type = "hybrid"

----------------------------------------------------------------------------
(* The HTTP layer (api/routes.py, main.py) over the service, and the       *)
(* module global of services/search.py                                     *)

MaxSessions == 3

\* the parameters after self of SearchService.__init__ and of the methods the
\* routes call, in order; the first `required` of them have no default
Signature(f) ==
    CASE f = "SearchService" ->
           [params |-> <<"session", "model_name">>, required |-> 1]
      [] f = "full_text_search" ->
           [params |-> <<"query", "limit", "offset", "category_id", "topic_id">>,
            required |-> 1]
      [] f = "semantic_search" ->
           [params |-> <<"query", "limit", "similarity_threshold", "category_id">>,
            required |-> 1]
      [] f = "hybrid_search" ->
           [params |-> <<"query", "limit", "semantic_weight", "text_weight",
                         "category_id">>,
            required |-> 1]
      [] f = "find_similar_posts" ->
           [params |-> <<"post_id", "limit", "similarity_threshold">>, required |-> 1]
      [] f = "get_trending_topics" ->
           [params |-> <<"days", "limit", "category_id">>, required |-> 0]

\* Python binds a call of f with npos positional arguments and the keyword
\* arguments kw; otherwise the call raises TypeError before the body runs
Binds(f, npos, kw) ==
    LET sig == Signature(f)
    IN  /\ npos <= Len(sig.params)
        /\ kw \subseteq Range(sig.params)
        /\ \A i \in 1..npos : sig.params[i] \notin kw
        /\ \A i \in 1..sig.required : i <= npos \/ sig.params[i] \in kw

\* the method search_posts calls for a search_type, and the keyword
\* arguments it passes
SearchCall(search_type) ==
    IF search_type = "text"
    THEN [method |-> "full_text_search",
          kw |-> {"query", "limit", "category_id", "user_id", "topic_id"}]
    ELSE [method |-> IF search_type = "semantic" THEN "semantic_search"
                     ELSE "hybrid_search",
          kw |-> {"query", "limit", "min_similarity", "category_id", "user_id",
                  "topic_id"}]

\* what a route handler answers after calling method with the keyword
\* arguments kw inside its try block: the body of the method runs only when
\* the call binds, and except Exception turns the TypeError into HTTP 500
Dispatched(method, kw) ==
    IF Binds(method, 0, kw)
    THEN [status |-> 200, method |-> method]
    ELSE [status |-> 500, method |-> None]

\* POST /api/search with a valid SearchRequest; Depends(get_session) opens a
\* session by db.get_session_sync()
routes_search_posts(search_type, q, l) ==
    /\ pc = "idle"
    /\ sessions < MaxSessions
    /\ sessions' = sessions + 1
    /\ arg' = [route |-> "search_posts", search_type |-> search_type,
               query |-> q, limit |-> l]
    /\ ret' = Dispatched(SearchCall(search_type).method, SearchCall(search_type).kw)
    /\ pc' = "responded"
    /\ UNCHANGED <<categories, search_service, txn, before>>
    /\ UNCHANGED <<users, issued, posts, topics, query, limit, all_results, keywords,
                   kw_done, result, faults, text_results, semantic_results>>

\* GET /api/posts/{post_id}/similar
routes_get_similar_posts(post_id, l) ==
    /\ pc = "idle"
    /\ sessions < MaxSessions
    /\ sessions' = sessions + 1
    /\ arg' = [route |-> "get_similar_posts", post_id |-> post_id, limit |-> l]
    /\ ret' = Dispatched("find_similar_posts", {"post_id", "limit", "min_similarity"})
    /\ pc' = "responded"
    /\ UNCHANGED <<categories, search_service, txn, before>>
    /\ UNCHANGED <<users, issued, posts, topics, query, limit, all_results, keywords,
                   kw_done, result, faults, text_results, semantic_results>>

\* GET /api/topics/trending
routes_get_trending_topics(hours, l) ==
    /\ pc = "idle"
    /\ sessions < MaxSessions
    /\ sessions' = sessions + 1
    /\ arg' = [route |-> "get_trending_topics", hours |-> hours, limit |-> l]
    /\ ret' = Dispatched("get_trending_topics", {"limit", "hours", "category_id"})
    /\ pc' = "responded"
    /\ UNCHANGED <<categories, search_service, txn, before>>
    /\ UNCHANGED <<users, issued, posts, topics, query, limit, all_results, keywords,
                   kw_done, result, faults, text_results, semantic_results>>

\* POST /api/ (main.py): Depends(get_session) opens a session, and the
\* handler calls comprehensive_search(query=request.question, limit=20)
handle_student_request(question) ==
    /\ pc = "idle"
    /\ sessions < MaxSessions
    /\ sessions' = sessions + 1
    /\ arg' = [route |-> "handle_student_request", question |-> question]
    /\ pc' = "exact"
    /\ query' = question
    /\ limit' = 20
    /\ all_results' = <<>>
    /\ keywords' = <<>>
    /\ kw_done' = 0
    /\ result' = <<>>
    /\ faults' = 0
    /\ UNCHANGED <<categories, search_service, txn, before>>
    /\ UNCHANGED <<users, issued, posts, topics, ret, text_results, semantic_results>>

\* get_search_service() of services/search.py
get_search_service ==
    /\ pc = "idle"
    /\ arg' = <<>>
    /\ IF search_service = None
       THEN IF Binds("SearchService", 0, {})
            THEN /\ search_service' = [class |-> "SearchService"]
                 /\ ret' = [class |-> "SearchService"]
                 /\ pc' = "got_service"
            ELSE /\ UNCHANGED search_service
                 /\ ret' = <<>>
                 /\ pc' = "get_service_raised"
       ELSE /\ UNCHANGED search_service
            /\ ret' = search_service
            /\ pc' = "got_service"
    /\ UNCHANGED <<categories, sessions, txn, before>>
    /\ UNCHANGED <<users, issued, posts, topics, query, limit, all_results, keywords,
                   kw_done, result, faults, text_results, semantic_results>>

\* the response has been sent, or the caller of get_search_service has its
\* value or its exception; a dependency that is a plain function has no
\* teardown
Respond ==
    /\ pc \in {"responded", "got_service", "get_service_raised"}
    /\ pc' = "idle"
    /\ arg' = <<>>
    /\ ret' = <<>>
    /\ UNCHANGED <<app, users, issued, posts, topics, query, limit, all_results, keywords,
                   kw_done, result, faults, text_results, semantic_results>>

\* the search types a valid SearchRequest carries
SearchTypes == { "text", "semantic", "hybrid" }

InitApp ==
    /\ users \in ServiceUserTables
    /\ categories = Categories
    /\ AppIdle
    /\ topics \in ServiceTopicTables
    /\ posts \in ServicePostTables(users)
    /\ pc = "idle"
    /\ issued = <<>>
    /\ query = None
    /\ limit = 0
    /\ all_results = <<>>
    /\ keywords = <<>>
    /\ kw_done = 0
    /\ result = <<>>
    /\ faults = 0
    /\ arg = <<>>
    /\ ret = <<>>
    /\ text_results = <<>>
    /\ semantic_results = <<>>

NextApp ==
    \/ \E st \in SearchTypes, q \in ServiceQueries \ { None, <<>> }, l \in 1..MaxLimit :
          routes_search_posts(st, q, l)
    \/ \E id \in 1..(MaxPosts + 1), l \in 1..MaxLimit : routes_get_similar_posts(id, l)
    \/ \E hours \in Windows, l \in 1..MaxLimit : routes_get_trending_topics(hours, l)
    \/ \E q \in ServiceQueries \ { None } : handle_student_request(q)
    \/ ExactPhrase
    \/ FullKeyword
    \/ ExtractKeywords
    \/ SingleKeyword
    \/ KeywordsDone
    \/ TopicTitle
    \/ Merge
    \/ Return
    \/ get_search_service
    \/ Respond

SpecApp == InitApp /\ [][NextApp]_vars

\* C23: the first call of get_search_service() creates the SearchService and
\* stores it in the module global, and every call returns the instance the
\* global holds: no call raises.
C23_LazySingleton ==
    /\ pc # "get_service_raised"
    /\ pc = "got_service" => search_service # None /\ ret = search_service

\* C24: a valid request to the search, similar-posts or trending-topics route
\* over a healthy store reaches the method the route names (full_text_search,
\* semantic_search or hybrid_search by search_type, find_similar_posts,
\* get_trending_topics) with arguments the method accepts, and is not
\* answered with HTTP 500.
C24_RouteDispatch ==
    pc = "responded" =>
        /\ ret.status # 500
        /\ ret.method =
              IF arg.route = "search_posts" THEN SearchCall(arg.search_type).method
              ELSE IF arg.route = "get_similar_posts" THEN "find_similar_posts"
              ELSE "get_trending_topics"

\* C28: the session opened for a request is closed by the time the handler
\* has answered: when no request is being handled no session is open.
C28_SessionRelease ==
    pc = "idle" => sessions = 0

----------------------------------------------------------------------------
(* The maintenance scripts: scripts/load_forum_data.py and                 *)
(* scripts/generate_embeddings.py. A row keeps the columns the scripts     *)
(* write and the constraints of database/models.py on them.                *)

\* the four tables as one record
Tables == [users |-> users, categories |-> categories, topics |-> topics, posts |-> posts]

\* the row an INSERT of load_forum_data_from_json writes for the dictionary d
\* of the JSON file; a key that is missing takes the default of d.get
InsertedRow(table, d) ==
    LET Get(k, default) == IF k \in DOMAIN d THEN d[k] ELSE default
    IN  CASE table = "users" ->
               [id |-> Get("id", NULL), username |-> Get("username", <<>>)]
          [] table = "categories" -> [id |-> Get("id", NULL)]
          [] table = "topics" ->
               [id |-> Get("id", NULL), title |-> Get("title", <<>>),
                category_id |-> Get("category_id", 1), user_id |-> Get("user_id", 1),
                title_embedding |-> <<>>]
          [] table = "posts" ->
               [id |-> Get("id", NULL), post_number |-> Get("post_number", 1),
                topic_id |-> Get("topic_id", NULL), user_id |-> Get("user_id", 1),
                cooked |-> Get("cooked", <<>>), raw |-> Get("raw", <<>>),
                content_embedding |-> <<>>]

\* the database rejects the INSERT of row into table: a primary key that is
\* NULL or taken, users.username taken, a foreign key without its row, or
\* (topic_id, post_number) taken
Violates(t, table, row) ==
    \/ row.id = NULL
    \/ \E r \in t[table] : r.id = row.id
    \/ table = "users" /\ \E r \in t.users : r.username = row.username
    \/ table = "topics" /\ ~ \E c \in t.categories : c.id = row.category_id
    \/ table \in {"topics", "posts"} /\ ~ \E u \in t.users : u.id = row.user_id
    \/ table = "posts" /\ ~ \E x \in t.topics : x.id = row.topic_id
    \/ table = "posts" /\ \E r \in t.posts :
          r.topic_id = row.topic_id /\ r.post_number = row.post_number

\* one loop of INSERTs: for d in data[table]: session.execute(INSERT ...);
\* the transaction after the loop, and whether an INSERT raised
RECURSIVE InsertRows(_, _, _)
InsertRows(s, table, ds) ==
    IF ds = <<>> \/ ~s.ok THEN s
    ELSE LET row == InsertedRow(table, Head(ds))
         IN  IF Violates(s.t, table, row) THEN [ok |-> FALSE, t |-> s.t]
             ELSE InsertRows([ok |-> TRUE,
                              t |-> [s.t EXCEPT ![table] = @ \cup {row}]],
                             table, Tail(ds))

\* the JSON files considered: a user, or two users without username; a
\* category, or none; a topic, or an untitled topic and a titled one; a post,
\* two posts of a topic without post_number, or a post of a missing topic
LoadData ==
    [ users : { << [id |-> 1, username |-> <<"u">>] >>, << [id |-> 1], [id |-> 2] >> },
      categories : { << [id |-> 1] >>, <<>> },
      topics : { << [id |-> 1, title |-> <<"n", "o", "n", "e">>] >>,
                 << [id |-> 1], [id |-> 2, title |-> <<"P", "o", "d", "m", "a", "n", " ", "G", "A">>] >> },
      posts : { << [id |-> 1, topic_id |-> 1, raw |-> <<"P", "o", "d", "m", "a", "n">>,
                    cooked |-> <<"<", "p", ">", "P", "o", "d", "m", "a", "n", "<", "/", "p", ">">>] >>,
                << [id |-> 1, topic_id |-> 1, raw |-> <<"o", "k">>,
                    cooked |-> <<"<", "p", ">", "o", "k", "<", "/", "p", ">">>],
                   [id |-> 2, topic_id |-> 1, raw |-> <<"o", "k">>,
                    cooked |-> <<"<", "p", ">", "o", "k", "<", "/", "p", ">">>] >>,
                << [id |-> 1, topic_id |-> 2, raw |-> <<"o", "k">>,
                    cooked |-> <<"<", "p", ">", "o", "k", "<", "/", "p", ">">>] >> } ]

\* load_forum_data_from_json, to its first commit: the session is opened, the
\* file is read, the four tables are emptied and the deletion is committed
LoadClear(data) ==
    /\ pc = "idle"
    /\ sessions' = sessions + 1
    /\ before' = Tables
    /\ arg' = data
    /\ users' = {}
    /\ categories' = {}
    /\ topics' = {}
    /\ posts' = {}
    /\ txn' = [users |-> {}, categories |-> {}, topics |-> {}, posts |-> {}]
    /\ pc' = "load_insert"
    /\ UNCHANGED <<search_service, issued, query, limit, all_results, keywords, kw_done,
                   result, faults, ret, text_results, semantic_results>>

\* the four loops of INSERTs and the second commit; an INSERT that raises
\* leaves the loops for the handler
LoadInsert ==
    /\ pc = "load_insert"
    /\ LET s == InsertRows(InsertRows(InsertRows(InsertRows(
                    [ok |-> TRUE, t |-> txn], "users", arg.users),
                    "categories", arg.categories), "topics", arg.topics),
                    "posts", arg.posts)
       IN  IF s.ok
           THEN /\ users' = s.t.users
                /\ categories' = s.t.categories
                /\ topics' = s.t.topics
                /\ posts' = s.t.posts
                /\ txn' = None
                /\ pc' = "loaded"
           ELSE /\ txn' = s.t
                /\ pc' = "load_except"
                /\ UNCHANGED <<users, categories, topics, posts>>
    /\ UNCHANGED <<search_service, sessions, before, issued, query, limit, all_results,
                   keywords, kw_done, result, faults, arg, ret, text_results,
                   semantic_results>>

\* except Exception: session.rollback(); raise. The rollback discards the
\* open transaction; what was committed stays
LoadExcept ==
    /\ pc = "load_except"
    /\ txn' = None
    /\ pc' = "load_failed"
    /\ UNCHANGED <<categories, search_service, sessions, before>>
    /\ UNCHANGED <<users, issued, posts, topics, query, limit, all_results, keywords,
                   kw_done, result, faults, arg, ret, text_results, semantic_results>>

\* re.sub(r'<[^>]+>', '', s)
RECURSIVE StripTags(_)
StripTags(s) ==
    IF s = <<>> THEN <<>>
    ELSE LET closes == { j \in 2..Len(s) : s[j] = ">" }
             j == CHOOSE j \in closes : \A k \in closes : j <= k
         IN  IF Head(s) = "<" /\ closes # {} /\ j >= 3
             THEN StripTags(SubSeq(s, j + 1, Len(s)))
             ELSE <<Head(s)>> \o StripTags(Tail(s))

\* html.unescape(s), for the entities &quot; &amp; &lt; &gt;
RECURSIVE Unescape(_)
Unescape(s) ==
    IF s = <<>> THEN <<>>
    ELSE LET entities ==
                 { [name |-> <<"&", "q", "u", "o", "t", ";">>, char |-> "\""],
                   [name |-> <<"&", "a", "m", "p", ";">>, char |-> "&"],
                   [name |-> <<"&", "l", "t", ";">>, char |-> "<"],
                   [name |-> <<"&", "g", "t", ";">>, char |-> ">"] }
             hits == { e \in entities : /\ Len(s) >= Len(e.name)
                                        /\ SubSeq(s, 1, Len(e.name)) = e.name }
             e == CHOOSE e \in hits : TRUE
         IN  IF hits # {}
             THEN <<e.char>> \o Unescape(SubSeq(s, Len(e.name) + 1, Len(s)))
             ELSE <<Head(s)>> \o Unescape(Tail(s))

\* re.sub(r'\s+', ' ', s)
RECURSIVE CollapseSpace(_)
CollapseSpace(s) ==
    IF s = <<>> THEN <<>>
    ELSE IF Head(s) = " " /\ Tail(s) # <<>> /\ Head(Tail(s)) = " "
         THEN CollapseSpace(Tail(s))
    ELSE <<Head(s)>> \o CollapseSpace(Tail(s))

\* str.strip()
RECURSIVE strip(_)
strip(s) ==
    IF s = <<>> THEN <<>>
    ELSE IF Head(s) = " " THEN strip(Tail(s))
    ELSE IF s[Len(s)] = " " THEN strip(SubSeq(s, 1, Len(s) - 1))
    ELSE s

clean_html_content(content) ==
    IF content = <<>> THEN <<>>
    ELSE strip(CollapseSpace(Unescape(StripTags(content))))

\* model.encode(text), as a list: a text stands for its embedding
Encode(text) == << text >>

\* generate_embeddings, to the end of its posts loop: the session is opened
\* and every post without embedding whose cleaned text is longer than 10
\* characters gets the embedding of that text (one batch; batch_size = 10);
\* when no post lacks an embedding the function returns
EmbedPosts ==
    /\ pc = "idle"
    /\ sessions' = sessions + 1
    /\ before' = Tables
    /\ arg' = <<>>
    /\ LET lacking == { p \in posts : p.content_embedding = <<>> }
           content(p) ==
               strip((IF p.raw # <<>> THEN clean_html_content(p.raw) \o <<" ">> ELSE <<>>)
                     \o (IF p.cooked # <<>> THEN clean_html_content(p.cooked) ELSE <<>>))
       IN  /\ posts' = { IF p \in lacking /\ Len(content(p)) > 10
                         THEN [p EXCEPT !.content_embedding = Encode(content(p))]
                         ELSE p : p \in posts }
           /\ pc' = IF lacking = {} THEN "embedded" ELSE "embed_topics"
    /\ UNCHANGED <<categories, search_service, txn>>
    /\ UNCHANGED <<users, issued, topics, query, limit, all_results, keywords,
                   kw_done, result, faults, ret, text_results, semantic_results>>

\* the topic titles: the topics without title_embedding, in the order the
\* query returns them, are zipped with the embeddings of the non-empty
\* titles among them
EmbedTopics ==
    /\ pc = "embed_topics"
    /\ \E listed \in Orderings({ t \in topics : t.title_embedding = <<>> }) :
          LET topic_titles ==
                  SelectSeq([i \in DOMAIN listed |-> listed[i].title],
                            LAMBDA title : title # <<>>)
              n == IF Len(topic_titles) < Len(listed) THEN Len(topic_titles)
                   ELSE Len(listed)
          IN  topics' =
                  { IF \E i \in 1..n : listed[i] = t
                    THEN [t EXCEPT !.title_embedding =
                             Encode(topic_titles[CHOOSE i \in 1..n : listed[i] = t])]
                    ELSE t : t \in topics }
    /\ pc' = "embedded"
    /\ UNCHANGED <<categories, search_service, sessions, txn, before>>
    /\ UNCHANGED <<users, issued, posts, query, limit, all_results, keywords,
                   kw_done, result, faults, arg, ret, text_results, semantic_results>>

\* finally: session.close(), and the script ends
ScriptExit ==
    /\ pc \in {"loaded", "load_failed", "embedded"}
    /\ sessions' = sessions - 1
    /\ before' = None
    /\ arg' = <<>>
    /\ pc' = "idle"
    /\ UNCHANGED <<categories, search_service, txn>>
    /\ UNCHANGED <<users, issued, posts, topics, query, limit, all_results, keywords,
                   kw_done, result, faults, ret, text_results, semantic_results>>

\* the store the scripts start on: the content of an earlier load
InitScripts ==
    /\ \E data \in LoadData :
          LET s == InsertRows(InsertRows(InsertRows(InsertRows(
                       [ok |-> TRUE,
                        t |-> [users |-> {}, categories |-> {}, topics |-> {}, posts |-> {}]],
                       "users", data.users), "categories", data.categories),
                       "topics", data.topics), "posts", data.posts)
          IN  /\ s.ok
              /\ users = s.t.users
              /\ categories = s.t.categories
              /\ topics = s.t.topics
              /\ posts = s.t.posts
    /\ AppIdle
    /\ pc = "idle"
    /\ issued = <<>>
    /\ query = None
    /\ limit = 0
    /\ all_results = <<>>
    /\ keywords = <<>>
    /\ kw_done = 0
    /\ result = <<>>
    /\ faults = 0
    /\ arg = <<>>
    /\ ret = <<>>
    /\ text_results = <<>>
    /\ semantic_results = <<>>

NextScripts ==
    \/ \E data \in LoadData : LoadClear(data)
    \/ LoadInsert
    \/ LoadExcept
    \/ EmbedPosts
    \/ EmbedTopics
    \/ ScriptExit

SpecScripts == InitScripts /\ [][NextScripts]_vars

\* C29: when load_forum_data_from_json fails while inserting users,
\* categories, topics or posts, the store after the rollback holds the rows
\* it held before the call.
C29_LoadAllOrNothing ==
    pc = "load_failed" => Tables = before

\* C30: after generate_embeddings, every topic that received a
\* title_embedding holds the embedding of its own title, also when some
\* topic without embedding has an empty title.
C30_TitleEmbeddingOnRightTopic ==
    pc = "embedded" =>
        \A t \in topics :
            (/\ t.title_embedding # <<>>
             /\ \E b \in before.topics : b.id = t.id /\ b.title_embedding = <<>>)
                => t.title_embedding = Encode(t.title)

====
